---- MODULE Spec2Model ----
(***************************************************************************)
(* Scoring and gating engine of the portfolio analyzer                     *)
(* (scripts/score_stock.py, utils/config.py), the batch scorer             *)
(* (scripts/score_all.py), the indicator scorers                           *)
(* (scripts/technical_analysis.py) and the event-sourced watchlists        *)
(* (scripts/watchlist_events.py).                                          *)
(*                                                                         *)
(* Numbers.  Every score is held in tenths of a point: 65 is the Python    *)
(* float 6.5, 80 is 8.0 (and the integer sub-score 8).  Weights are held   *)
(* in hundredths: 35 is 0.35.  A weighted sum is the exact fraction        *)
(* num / den (value in tenths); round(x, 1) of a fraction that is exactly  *)
(* halfway between two tenths depends on the binary floating-point error   *)
(* of the sum, so both neighbours are possible outcomes.                   *)
(***************************************************************************)
EXTENDS Integers, Sequences, FiniteSets, TLC

VARIABLES
    technical,      \* data/technical/<symbol_yf>.json
    fundamentals,   \* data/fundamentals/<symbol_yf>.json
    news,           \* data/news/<symbol_yf>.json
    legal,          \* data/legal/<symbol_yf>.json
    profile,        \* --profile argument of score_stock
    pc,             \* the function about to run, or "done" after it returned
    frame,          \* local variables of score_stock when it returns
    result,         \* the dictionary score_stock returns
    gate_args,      \* arguments of a direct call of apply_gates
    gate_ret,       \* its return value (recommendation, flags)
    rec_score,      \* argument of a direct call of get_recommendation
    rec_ret,        \* its return value
    symbol,         \* <symbol> argument of the score_stock command ("" when not given)
    files,          \* per artifact file: "ok" (a JSON document), "missing" or "garbage"
    out_file,       \* data/scores/<name>.json: the documents it holds (<<>> when absent)
    exit_code,      \* exit code of the last score_stock process (None before the first)
    runs,           \* score_stock processes that have run
    half_up,        \* how this machine's float sum resolves an exact half in round()
    holdings_file,  \* data/holdings.json as score_all sees it
    returncode,     \* per holding: the exit code its scorer process ends with
    loop,           \* local variables of score_all.main
    batch_exit,     \* exit code of score_all (None while it runs)
    scores_dir,     \* data/scores as score_all's scorer processes leave it
    ind_args,       \* arguments of a call of an indicator scorer or a scoring helper
    ind_ret,        \* its return value
    events_file,    \* data/watchlists/<watchlist_id>/events.jsonl: the events it holds
    view_file       \* data/watchlists/<watchlist_id>/watchlist.json (None before a rebuild)

scoreVars == <<technical, fundamentals, news, legal, profile, pc, frame, result>>
gateVars == <<gate_args, gate_ret>>
recVars == <<rec_score, rec_ret>>
mainVars == <<symbol, files, out_file, exit_code, runs, half_up>>
batchVars == <<holdings_file, returncode, loop, batch_exit, scores_dir>>
indVars == <<ind_args, ind_ret>>
watchVars == <<events_file, view_file>>
vars == <<scoreVars, gateVars, recVars, mainVars, batchVars, indVars, watchVars>>

\* Python None, and a key that is absent from a JSON object.
None == -1

\* n points in tenths.
Pt(n) == n * 10

-----------------------------------------------------------------------------
(* utils/config.py *)

COMPONENT_WEIGHTS ==
    [technical |-> 35, fundamental |-> 30, news_sentiment |-> 20, legal_corporate |-> 15]

SCORING_PROFILES ==
    [default |-> COMPONENT_WEIGHTS,
     watchlist_swing |->
        [technical |-> 60, fundamental |-> 20, news_sentiment |-> 10, legal_corporate |-> 10],
     portfolio_long_term |->
        [technical |-> 25, fundamental |-> 40, news_sentiment |-> 15, legal_corporate |-> 20]]

ProfileNames == {"default", "watchlist_swing", "portfolio_long_term"}

THRESHOLDS == [strong_buy |-> 80, buy |-> 65, hold |-> 45, sell |-> 30]

GATES ==
    [trend_min_for_buy |-> Pt(5),
     adx_weak_threshold |-> Pt(4),
     volume_min_for_weak_trend |-> Pt(6),
     news_hype_threshold |-> Pt(8),
     tech_min_for_news_buy |-> Pt(5),
     strong_buy_trend_min |-> Pt(7),
     strong_buy_macd_min |-> Pt(6),
     strong_buy_adx_min |-> Pt(6)]

\* Faulty variant: the lower bounds are exclusive.
get_recommendation_exclusive(score) ==
    IF score > THRESHOLDS.strong_buy THEN "STRONG BUY"
    ELSE IF score > THRESHOLDS.buy THEN "BUY"
    ELSE IF score > THRESHOLDS.hold THEN "HOLD"
    ELSE IF score > THRESHOLDS.sell THEN "SELL"
    ELSE "STRONG SELL"

get_recommendation(score) ==
    IF score >= THRESHOLDS.strong_buy THEN "STRONG BUY"
    ELSE IF score >= THRESHOLDS.buy THEN "BUY"
    ELSE IF score >= THRESHOLDS.hold THEN "HOLD"
    ELSE IF score >= THRESHOLDS.sell THEN "SELL"
    ELSE "STRONG SELL"

\* str.strip() on the profile arguments a call is made with: leading and
\* trailing whitespace is removed, anything else is kept.
strip(s) ==
    CASE s = " default" -> "default"
      [] s = " swing " -> "swing"
      [] s = " " -> ""
      [] OTHER -> s

\* Faulty variant: an unknown profile falls back to the default weights.
get_component_weights_fallback(p) ==
    LET key == strip(IF p = "" THEN "default" ELSE p)
    IN  IF key \in ProfileNames
        THEN [raised |-> FALSE, weights |-> SCORING_PROFILES[key]]
        ELSE [raised |-> FALSE, weights |-> COMPONENT_WEIGHTS]

\* key = (profile or "default").strip(); "" stands for None and the empty string.
\* An unknown key raises ValueError: the value [raised |-> TRUE].
get_component_weights(p) ==
    LET key == strip(IF p = "" THEN "default" ELSE p)
    IN  IF key \in ProfileNames
        THEN [raised |-> FALSE, weights |-> SCORING_PROFILES[key]]
        ELSE [raised |-> TRUE, weights |-> COMPONENT_WEIGHTS]

-----------------------------------------------------------------------------
(* scripts/score_stock.py *)

Min(a, b) == IF a <= b THEN a ELSE b

\* scores.get(k, 5): the default only replaces an absent key.
Get(scores, k) == IF scores[k] = None THEN Pt(5) ELSE scores[k]

\* Faulty variant: alignment asks for more than three agreeing signals.
compute_confidence_over3(scores) ==
    LET trend == Get(scores, "trend")
        macd == Get(scores, "macd")
        adx == Get(scores, "adx")
        three == <<trend, macd, adx>>
        bullish == Cardinality({i \in 1..3 : three[i] >= Pt(6)})
        bearish == Cardinality({i \in 1..3 : three[i] <= Pt(4)})
        has_conflict == bullish > 0 /\ bearish > 0
    IN  IF has_conflict THEN "LOW"
        ELSE IF macd >= Pt(7) /\ trend < Pt(5) THEN "LOW"
        ELSE IF adx < GATES.adx_weak_threshold THEN "LOW"
        ELSE IF bullish > 3 \/ bearish > 3 THEN "HIGH"
        ELSE "MEDIUM"

\* Faulty variant: the weak-trend rule uses <=, as gate 2 does.
compute_confidence_weak_le(scores) ==
    LET trend == Get(scores, "trend")
        macd == Get(scores, "macd")
        adx == Get(scores, "adx")
        three == <<trend, macd, adx>>
        bullish == Cardinality({i \in 1..3 : three[i] >= Pt(6)})
        bearish == Cardinality({i \in 1..3 : three[i] <= Pt(4)})
        has_conflict == bullish > 0 /\ bearish > 0
    IN  IF has_conflict THEN "LOW"
        ELSE IF macd >= Pt(7) /\ trend < Pt(5) THEN "LOW"
        ELSE IF adx <= GATES.adx_weak_threshold THEN "LOW"
        ELSE IF bullish >= 3 \/ bearish >= 3 THEN "HIGH"
        ELSE "MEDIUM"

\* Faulty variant: a score counts as bearish from 3 down.
compute_confidence_bearish3(scores) ==
    LET trend == Get(scores, "trend")
        macd == Get(scores, "macd")
        adx == Get(scores, "adx")
        three == <<trend, macd, adx>>
        bullish == Cardinality({i \in 1..3 : three[i] >= Pt(6)})
        bearish == Cardinality({i \in 1..3 : three[i] <= Pt(3)})
        has_conflict == bullish > 0 /\ bearish > 0
    IN  IF has_conflict THEN "LOW"
        ELSE IF macd >= Pt(7) /\ trend < Pt(5) THEN "LOW"
        ELSE IF adx < GATES.adx_weak_threshold THEN "LOW"
        ELSE IF bullish >= 3 \/ bearish >= 3 THEN "HIGH"
        ELSE "MEDIUM"

compute_confidence(scores) ==
    LET trend == Get(scores, "trend")
        macd == Get(scores, "macd")
        adx == Get(scores, "adx")
        three == <<trend, macd, adx>>
        bullish == Cardinality({i \in 1..3 : three[i] >= Pt(6)})
        bearish == Cardinality({i \in 1..3 : three[i] <= Pt(4)})
        has_conflict == bullish > 0 /\ bearish > 0
    IN  IF has_conflict THEN "LOW"
        ELSE IF macd >= Pt(7) /\ trend < Pt(5) THEN "LOW"
        ELSE IF adx < GATES.adx_weak_threshold THEN "LOW"
        ELSE IF bullish >= 3 \/ bearish >= 3 THEN "HIGH"
        ELSE "MEDIUM"

\* Faulty variant: the two caps are swapped.
apply_influence_caps_swapped(technical_score, fundamental_score, news_score, legal_score) ==
    IF technical_score < GATES.tech_min_for_news_buy
    THEN <<Min(fundamental_score, 60), Min(news_score, 70), legal_score>>
    ELSE <<fundamental_score, news_score, legal_score>>

\* Returns <<capped_fundamental, capped_news, capped_legal>>.
apply_influence_caps(technical_score, fundamental_score, news_score, legal_score) ==
    IF technical_score < GATES.tech_min_for_news_buy
    THEN <<Min(fundamental_score, 70), Min(news_score, 60), legal_score>>
    ELSE <<fundamental_score, news_score, legal_score>>

\* x if x is not None else 5
OrNeutral(x) == IF x # None THEN x ELSE Pt(5)

\* Faulty variant: gate 1 tests for BUY only.
Gate1_buy_only(s) ==
    IF s.trend < GATES.trend_min_for_buy /\ s.rec = "BUY"
    THEN [s EXCEPT !.rec = "HOLD", !.flags = Append(@, "weak_trend_gate")]
    ELSE s

Gate1(s) ==
    IF s.trend < GATES.trend_min_for_buy /\ s.rec \in {"BUY", "STRONG BUY"}
    THEN [s EXCEPT !.rec = "HOLD", !.flags = Append(@, "weak_trend_gate")]
    ELSE s

\* Faulty variant: gate 2 without its test of the recommendation.
Gate2_unguarded(s) ==
    IF /\ s.adx <= GATES.adx_weak_threshold
       /\ s.volume < GATES.volume_min_for_weak_trend
    THEN [s EXCEPT !.rec = "HOLD", !.flags = Append(@, "trendless_no_volume_gate")]
    ELSE s

Gate2(s) ==
    IF /\ s.adx <= GATES.adx_weak_threshold
       /\ s.volume < GATES.volume_min_for_weak_trend
       /\ s.rec \in {"BUY", "STRONG BUY"}
    THEN [s EXCEPT !.rec = "HOLD", !.flags = Append(@, "trendless_no_volume_gate")]
    ELSE s

\* Faulty variant: gate 3 compares the news score as capped for the sum.
Gate3_capped_news(s) ==
    IF /\ (IF s.tech < GATES.tech_min_for_news_buy THEN Min(s.news, 60) ELSE s.news)
             >= GATES.news_hype_threshold
       /\ s.tech < GATES.tech_min_for_news_buy
       /\ s.rec = "BUY"
    THEN [s EXCEPT !.rec = "HOLD", !.flags = Append(@, "sentiment_without_confirmation")]
    ELSE s

Gate3(s) ==
    IF /\ s.news >= GATES.news_hype_threshold
       /\ s.tech < GATES.tech_min_for_news_buy
       /\ s.rec = "BUY"
    THEN [s EXCEPT !.rec = "HOLD", !.flags = Append(@, "sentiment_without_confirmation")]
    ELSE s

\* Faulty variant: gate 4 is content with any one of the three minimums.
Gate4_any(s) ==
    IF /\ s.rec = "STRONG BUY"
       /\ ~ (\/ s.trend >= GATES.strong_buy_trend_min
             \/ s.macd >= GATES.strong_buy_macd_min
             \/ s.adx >= GATES.strong_buy_adx_min)
    THEN [s EXCEPT !.rec = "BUY", !.flags = Append(@, "strong_buy_alignment_failed")]
    ELSE s

\* Faulty variant: gate 4 also tests a BUY.
Gate4_buy_side(s) ==
    IF /\ s.rec \in {"BUY", "STRONG BUY"}
       /\ ~ (/\ s.trend >= GATES.strong_buy_trend_min
             /\ s.macd >= GATES.strong_buy_macd_min
             /\ s.adx >= GATES.strong_buy_adx_min)
    THEN [s EXCEPT !.rec = "BUY", !.flags = Append(@, "strong_buy_alignment_failed")]
    ELSE s

Gate4(s) ==
    IF /\ s.rec = "STRONG BUY"
       /\ ~ (/\ s.trend >= GATES.strong_buy_trend_min
             /\ s.macd >= GATES.strong_buy_macd_min
             /\ s.adx >= GATES.strong_buy_adx_min)
    THEN [s EXCEPT !.rec = "BUY", !.flags = Append(@, "strong_buy_alignment_failed")]
    ELSE s

\* Faulty variant: the alignment gate runs first.
apply_gates_gate4_first(recommendation, trend_score, macd_score, adx_score, volume_score, technical_score, news_score) ==
    LET s0 == [rec |-> recommendation, flags |-> <<>>,
               trend |-> OrNeutral(trend_score), macd |-> OrNeutral(macd_score),
               adx |-> OrNeutral(adx_score), volume |-> OrNeutral(volume_score),
               tech |-> OrNeutral(technical_score), news |-> OrNeutral(news_score)]
        s4 == Gate3(Gate2(Gate1(Gate4(s0))))
    IN  [rec |-> s4.rec, flags |-> s4.flags]

\* Returns [rec, flags]: the adjusted recommendation and the gate flags.
apply_gates(recommendation, trend_score, macd_score, adx_score, volume_score, technical_score, news_score) ==
    LET s0 == [rec |-> recommendation, flags |-> <<>>,
               trend |-> OrNeutral(trend_score), macd |-> OrNeutral(macd_score),
               adx |-> OrNeutral(adx_score), volume |-> OrNeutral(volume_score),
               tech |-> OrNeutral(technical_score), news |-> OrNeutral(news_score)]
        s4 == Gate4(Gate3(Gate2(Gate1(s0))))
    IN  [rec |-> s4.rec, flags |-> s4.flags]

\* JSON values that are not numbers: true, false, and a string, list or object.
\* A JSON number is held as a value >= 0, null and an absent key as None.
JsonTrue == -2
JsonFalse == -3
JsonText == -4

\* isinstance(value, (int, float)): Python's bool is a subclass of int.
IsNumber(value) == value >= 0 \/ value \in {JsonTrue, JsonFalse}

\* float(value): True is 1.0 and False is 0.0.
float(value) ==
    CASE value = JsonTrue -> Pt(1)
      [] value = JsonFalse -> 0
      [] OTHER -> value

normalize_score(value) ==
    IF value = None THEN None
    ELSE IF IsNumber(value) THEN float(value)
    ELSE None

Components == {"technical", "fundamental", "news_sentiment", "legal_corporate"}

\* round(num / den, 1) in tenths.  An exact half is decided by the binary
\* representation of the float sum: either neighbour can come out.
Round1(num, den) ==
    LET q == num \div den
        r == num % den
    IN  IF 2 * r < den THEN {q}
        ELSE IF 2 * r > den THEN {q + 1}
        ELSE {q, q + 1}

\* sum(active_weights.values()): the weights of the present components.
TotalWeight(weights, present) ==
    (IF "technical" \in present THEN weights.technical ELSE 0)
    + (IF "fundamental" \in present THEN weights.fundamental ELSE 0)
    + (IF "news_sentiment" \in present THEN weights.news_sentiment ELSE 0)
    + (IF "legal_corporate" \in present THEN weights.legal_corporate ELSE 0)

\* Faulty variant: the profile weights are used without renormalization
\* (every profile sums to 100 hundredths).
NormalizedWeights_raw(weights, present) ==
    IF TotalWeight(weights, present) > 0
    THEN [k \in present |-> <<weights[k], 100>>]
    ELSE <<>>

\* {k: v / total_weight}: each weight is the fraction <<v, total_weight>>;
\* with no weight at all the dictionary is empty.
NormalizedWeights(weights, present) ==
    LET total_weight == TotalWeight(weights, present)
    IN  IF total_weight > 0
        THEN [k \in present |-> <<weights[k], total_weight>>]
        ELSE <<>>

\* active_scores after the influence caps (lines 404-415 and 438-448).
ActiveScores(technical_score, fundamental_score, news_score, legal_score, present) ==
    LET capF == apply_influence_caps(technical_score, fundamental_score,
                   IF news_score = None THEN Pt(5) ELSE news_score,
                   IF legal_score = None THEN Pt(5) ELSE legal_score)[1]
        capN == apply_influence_caps(technical_score,
                   IF fundamental_score = None THEN Pt(5) ELSE fundamental_score,
                   news_score,
                   IF legal_score = None THEN Pt(5) ELSE legal_score)[2]
    IN  [k \in present |->
            CASE k = "technical" -> technical_score
              [] k = "fundamental" ->
                    IF technical_score # None THEN capF ELSE fundamental_score
              [] k = "news_sentiment" ->
                    IF technical_score # None THEN capN ELSE news_score
              [] OTHER -> legal_score]

\* Faulty variant: with no weights the sum stays at its initial 0.
WeightedSum_zero(active_scores, normalized_weights) ==
    LET ks == DOMAIN normalized_weights
        term(k) == IF k \in ks THEN active_scores[k] * normalized_weights[k][1] ELSE 0
        den == IF ks = {} THEN 1 ELSE normalized_weights[CHOOSE k \in ks : TRUE][2]
    IN  IF ks = {} THEN <<0, 1>>
        ELSE <<term("technical") + term("fundamental") + term("news_sentiment")
                 + term("legal_corporate"), den>>

\* sum(active_scores[k] * normalized_weights[k]) as the fraction <<num, den>>;
\* 5.0 when there are no weights.
WeightedSum(active_scores, normalized_weights) ==
    LET ks == DOMAIN normalized_weights
        term(k) == IF k \in ks THEN active_scores[k] * normalized_weights[k][1] ELSE 0
        den == IF ks = {} THEN 1 ELSE normalized_weights[CHOOSE k \in ks : TRUE][2]
    IN  IF ks = {} THEN <<Pt(5), 1>>
        ELSE <<term("technical") + term("fundamental") + term("news_sentiment")
                 + term("legal_corporate"), den>>

\* Faulty variant: the red-flag cap is left out.
CapAtFive_absent(x) == x

\* min(overall_score, 5.0) on a fraction.
CapAtFive(x) == IF x[1] > Pt(5) * x[2] THEN <<Pt(5), 1>> ELSE x

NoFrame ==
    [normalized_weights |-> <<>>, active_scores |-> <<>>, initial |-> "",
     raw |-> <<0, 1>>, capped |-> <<0, 1>>]

NoResult ==
    [raised |-> FALSE, technical_score |-> None, fundamental_score |-> None,
     news_sentiment_score |-> None, legal_corporate_score |-> None,
     overall_score |-> None, recommendation |-> "", confidence |-> "",
     coverage |-> {}, coverage_pct |-> 0, gate_flags |-> <<>>]

\* Faulty variant: the fundamental score is passed where the news score belongs.
gate_kwargs_fundamental(technical_score, fundamental_score, news_score, legal_score) ==
    [technical_score |-> technical_score, news_score |-> fundamental_score]

\* The keyword arguments of the apply_gates call: of the four component
\* scores only the technical and the news score are passed on.
gate_kwargs(technical_score, fundamental_score, news_score, legal_score) ==
    [technical_score |-> technical_score, news_score |-> news_score]

\* Faulty variant: three components are taken as enough.
InsufficientData_below3(coverage_count) == coverage_count < 3

\* if coverage_count < 4: recommendations are skipped.
InsufficientData(coverage_count) == coverage_count < 4

\* The set of <<frame, result>> a call can end with (one element unless the
\* weighted sum is an exact half of a tenth).
score_stock(tech, fund, nws, lgl, prof) ==
    LET technical_score == normalize_score(tech.technical_score)
        fundamental_score == normalize_score(fund.fundamental_score)
        news_score == normalize_score(nws.news_sentiment_score)
        legal_score == normalize_score(lgl.legal_corporate_score)
        coverage ==
            (IF technical_score # None THEN {"technical"} ELSE {})
            \cup (IF fundamental_score # None THEN {"fundamental"} ELSE {})
            \cup (IF news_score # None THEN {"news_sentiment"} ELSE {})
            \cup (IF legal_score # None THEN {"legal_corporate"} ELSE {})
        coverage_count == Cardinality(coverage)
        w == get_component_weights(prof)
        normalized_weights == NormalizedWeights(w.weights, coverage)
        tech_scores == tech.scores
        trend_score == Get(tech_scores, "trend")
        macd_score == Get(tech_scores, "macd")
        adx_score == Get(tech_scores, "adx")
        volume_score == Get(tech_scores, "volume")
        active_scores ==
            ActiveScores(technical_score, fundamental_score, news_score, legal_score, coverage)
        raw == WeightedSum(active_scores, normalized_weights)
        capped == IF lgl.has_severe_red_flag THEN CapAtFive(raw) ELSE raw
        kwargs == gate_kwargs(technical_score, fundamental_score, news_score, legal_score)
        out(overall_score) ==
            LET initial == get_recommendation(overall_score)
                gated == apply_gates(initial, trend_score, macd_score, adx_score,
                                     volume_score, kwargs.technical_score,
                                     kwargs.news_score)
                full == ~ InsufficientData(coverage_count)
            IN  <<[normalized_weights |-> normalized_weights,
                   active_scores |-> active_scores,
                   initial |-> IF full THEN initial ELSE "",
                   raw |-> raw,
                   capped |-> capped],
                  [raised |-> FALSE,
                   technical_score |-> technical_score,
                   fundamental_score |-> fundamental_score,
                   news_sentiment_score |-> news_score,
                   legal_corporate_score |-> legal_score,
                   overall_score |-> overall_score,
                   recommendation |-> IF full THEN gated.rec ELSE "INSUFFICIENT DATA",
                   confidence |-> IF full THEN compute_confidence(tech_scores) ELSE "N/A",
                   coverage |-> coverage,
                   coverage_pct |-> 25 * coverage_count,
                   gate_flags |-> IF full THEN gated.flags ELSE <<"missing_data">>]>>
    IN  IF w.raised
        THEN {<<NoFrame, [NoResult EXCEPT !.raised = TRUE]>>}
        ELSE {out(o) : o \in Round1(capped[1], capped[2])}

-----------------------------------------------------------------------------
(* Inputs *)

\* Component scores drawn for a call: 10, 7, 4, ... points, and None.
ScoreCount == 3
ScoreValues == {Pt(10 - 3 * i) : i \in 0..(ScoreCount - 1)}

\* Indicator sub-scores drawn for a call: 4, 7, ... points, and an absent key
\* (read as 5).
SubCount == 2
SubValues == {Pt(4 + 3 * i) : i \in 0..(SubCount - 1)}

SubKeys == {"trend", "macd", "adx", "volume"}

Artifacts(t, f, n, l, flag, subs, p) ==
    [technical |-> [technical_score |-> t, scores |-> subs],
     fundamentals |-> [fundamental_score |-> f],
     news |-> [news_sentiment_score |-> n],
     legal |-> [legal_corporate_score |-> l, has_severe_red_flag |-> flag],
     profile |-> p]

SubsA == [trend |-> Pt(8), macd |-> Pt(7), adx |-> Pt(7), volume |-> Pt(7)]

\* The worked scenarios A to E of the scoring rules, under every profile.
Scenarios ==
    UNION {
      { Artifacts(Pt(9), Pt(8), Pt(9), Pt(8), FALSE, SubsA, p),
        Artifacts(Pt(9), Pt(8), Pt(9), Pt(8), FALSE, [SubsA EXCEPT !.trend = Pt(3)], p),
        Artifacts(Pt(3), Pt(9), Pt(9), Pt(10), FALSE, SubsA, p),
        Artifacts(Pt(9), Pt(8), None, None, FALSE, SubsA, p),
        Artifacts(Pt(9), Pt(9), Pt(9), Pt(9), TRUE, SubsA, p) } : p \in ProfileNames }

EmptyTechnical == [technical_score |-> None, scores |-> [k \in SubKeys |-> None]]
EmptyFundamentals == [fundamental_score |-> None]
EmptyNews == [news_sentiment_score |-> None]
EmptyLegal == [legal_corporate_score |-> None, has_severe_red_flag |-> FALSE]

\* No score_stock process, no score_all process and no indicator call.
IdleMain ==
    /\ symbol = "RELIANCE"
    /\ files = [k \in Components |-> "ok"]
    /\ out_file = <<>>
    /\ exit_code = None
    /\ runs = 0
    /\ half_up = FALSE

IdleBatch ==
    /\ holdings_file = [exists |-> FALSE, holdings |-> <<>>]
    /\ returncode = <<>>
    /\ loop = [total |-> 0, i |-> 0, success |-> 0, failed |-> <<>>, invoked |-> <<>>]
    /\ batch_exit = None
    /\ scores_dir = {}

IdleInd ==
    /\ ind_args = [fn |-> ""]
    /\ ind_ret = None

IdleWatch ==
    /\ events_file = <<>>
    /\ view_file = None

IdleGate == [rec |-> "", trend |-> None, macd |-> None, adx |-> None,
             volume |-> None, tech |-> None, news |-> None]
IdleGateRet == [rec |-> "", flags |-> <<>>]

InitScore ==
    /\ \/ /\ technical \in [technical_score : ScoreValues \cup {None},
                            scores : [SubKeys -> SubValues \cup {None}]]
          /\ fundamentals \in [fundamental_score : ScoreValues \cup {None}]
          /\ news \in [news_sentiment_score : ScoreValues \cup {None}]
          /\ legal \in [legal_corporate_score : ScoreValues \cup {None},
                        has_severe_red_flag : BOOLEAN]
          /\ profile \in ProfileNames
       \/ \E a \in Scenarios :
          /\ technical = a.technical
          /\ fundamentals = a.fundamentals
          /\ news = a.news
          /\ legal = a.legal
          /\ profile = a.profile
    /\ pc = "score_stock"
    /\ frame = NoFrame
    /\ result = NoResult
    /\ gate_args = IdleGate
    /\ gate_ret = IdleGateRet
    /\ rec_score = None
    /\ rec_ret = ""
    /\ IdleMain
    /\ IdleBatch
    /\ IdleInd
    /\ IdleWatch

\* One call of score_stock on the artifacts on disk.
ScoreStock ==
    /\ pc = "score_stock"
    /\ \E o \in score_stock(technical, fundamentals, news, legal, profile) :
          /\ frame' = o[1]
          /\ result' = o[2]
    /\ pc' = "done"
    /\ UNCHANGED <<technical, fundamentals, news, legal, profile, gateVars, recVars,
                   mainVars, batchVars, indVars, watchVars>>

NextScore == ScoreStock

SpecScore == InitScore /\ [][NextScore]_vars

-----------------------------------------------------------------------------
(* score_stock on artifacts whose score field holds any JSON value *)

JsonValues == ScoreValues \cup {None, JsonTrue, JsonFalse, JsonText}

InitLoad ==
    /\ technical \in [technical_score : JsonValues, scores : {EmptyTechnical.scores, SubsA}]
    /\ fundamentals \in [fundamental_score : JsonValues]
    /\ news \in [news_sentiment_score : JsonValues]
    /\ legal \in [legal_corporate_score : JsonValues, has_severe_red_flag : BOOLEAN]
    /\ profile \in ProfileNames
    /\ pc = "score_stock"
    /\ frame = NoFrame
    /\ result = NoResult
    /\ gate_args = IdleGate
    /\ gate_ret = IdleGateRet
    /\ rec_score = None
    /\ rec_ret = ""
    /\ IdleMain
    /\ IdleBatch
    /\ IdleInd
    /\ IdleWatch

SpecLoad == InitLoad /\ [][NextScore]_vars

-----------------------------------------------------------------------------
(* The score_stock command (main), run any number of times on the same files *)

\* utils/helpers.py load_json: None for a file that does not exist, the
\* parsed document otherwise; json.load raises on a file that is not JSON.
load_json(status, content) ==
    [raised |-> status = "garbage", found |-> status = "ok", value |-> content]

\* load_json(path) or {}
OrEmpty(loaded, empty) == IF loaded.found THEN loaded.value ELSE empty

\* score_stock from the files on disk: the four artifacts are loaded first,
\* and an exception of load_json leaves the function.
score_stock_disk(fs, tech, fund, nws, lgl, prof) ==
    LET t == load_json(fs.technical, tech)
        f == load_json(fs.fundamental, fund)
        n == load_json(fs.news_sentiment, nws)
        l == load_json(fs.legal_corporate, lgl)
    IN  IF t.raised \/ f.raised \/ n.raised \/ l.raised
        THEN {<<NoFrame, [NoResult EXCEPT !.raised = TRUE]>>}
        ELSE score_stock(OrEmpty(t, EmptyTechnical), OrEmpty(f, EmptyFundamentals),
                         OrEmpty(n, EmptyNews), OrEmpty(l, EmptyLegal), prof)

\* Float arithmetic is a function of its operands: of the outcomes of a call
\* the machine computes one, the same on every run.
Computed(outs, up) ==
    CHOOSE o \in outs :
        \A q \in outs :
            IF up THEN o[2].overall_score >= q[2].overall_score
            ELSE o[2].overall_score <= q[2].overall_score

\* Faulty variant: the file is opened for appending.
WriteOutput_append(previous, doc) == Append(previous, doc)

\* open(output_file, "w") and json.dump(result, f): the file holds the new
\* document alone.
WriteOutput(previous, doc) == <<doc>>

\* Faulty variant: the exception handler does not set the exit code.
ExitCode_zero(raised) == 0

\* except Exception: sys.exit(1); a main that returns exits with 0.
ExitCode(raised) == IF raised THEN 1 ELSE 0

\* One process: its exit code, the output file it leaves, and what
\* score_stock returned to it.
main(sym, fs, tech, fund, nws, lgl, prof, up, previous) ==
    IF sym = ""
    THEN [exit_code |-> 1, out_file |-> previous, frame |-> NoFrame, result |-> NoResult]
    ELSE LET o == Computed(score_stock_disk(fs, tech, fund, nws, lgl, prof), up)
         IN  [exit_code |-> ExitCode(o[2].raised),
              out_file |-> IF o[2].raised THEN previous ELSE WriteOutput(previous, o[2]),
              frame |-> o[1],
              result |-> o[2]]

\* Processes run one after another on the same files.
MaxRuns == 2

\* --profile arguments: the profile names, none (""), padded names, blanks
\* and an unknown name.
ProfileArgs == ProfileNames \cup {"", " default", " ", "swing", " swing "}

FileStates == {"ok", "missing", "garbage"}

\* A score record left in data/scores by an earlier run on other data.
StaleRecord == [NoResult EXCEPT !.overall_score = Pt(5), !.recommendation = "HOLD"]

InitMain ==
    /\ \/ /\ symbol = "RELIANCE"
          /\ files \in [Components -> FileStates]
          /\ profile \in ProfileArgs
       \/ /\ symbol = ""
          /\ files \in [Components -> {"ok"}]
          /\ profile = ""
    /\ technical \in IF files.technical = "ok"
                      THEN [technical_score : ScoreValues,
                            scores : {EmptyTechnical.scores, SubsA}]
                      ELSE {EmptyTechnical}
    /\ fundamentals \in IF files.fundamental = "ok"
                         THEN [fundamental_score : ScoreValues]
                         ELSE {EmptyFundamentals}
    /\ news \in IF files.news_sentiment = "ok"
                 THEN [news_sentiment_score : ScoreValues]
                 ELSE {EmptyNews}
    /\ legal \in IF files.legal_corporate = "ok"
                  THEN [legal_corporate_score : ScoreValues, has_severe_red_flag : BOOLEAN]
                  ELSE {EmptyLegal}
    /\ out_file \in {<<>>, <<StaleRecord>>}
    /\ half_up \in BOOLEAN
    /\ exit_code = None
    /\ runs = 0
    /\ pc = "main"
    /\ frame = NoFrame
    /\ result = NoResult
    /\ gate_args = IdleGate
    /\ gate_ret = IdleGateRet
    /\ rec_score = None
    /\ rec_ret = ""
    /\ IdleBatch
    /\ IdleInd
    /\ IdleWatch

\* One run of the command, from start to exit.
Main ==
    /\ pc = "main"
    /\ runs < MaxRuns
    /\ LET m == main(symbol, files, technical, fundamentals, news, legal, profile,
                     half_up, out_file)
       IN  /\ exit_code' = m.exit_code
           /\ out_file' = m.out_file
           /\ frame' = m.frame
           /\ result' = m.result
    /\ runs' = runs + 1
    /\ UNCHANGED <<technical, fundamentals, news, legal, profile, pc, symbol, files,
                   half_up, gateVars, recVars, batchVars, indVars, watchVars>>

NextMain == Main

SpecMain == InitMain /\ [][NextMain]_vars

-----------------------------------------------------------------------------
(* apply_gates called on its own *)

Recommendations == {"STRONG BUY", "BUY", "HOLD", "SELL", "STRONG SELL"}

\* Scores drawn for a direct call: 4 .. 4 + GateSpan points, and None.
GateSpan == 4
GateValues == {Pt(4 + i) : i \in 0..GateSpan} \cup {None}

InitGates ==
    /\ gate_args \in [rec : Recommendations, trend : GateValues, macd : GateValues,
                      adx : GateValues, volume : GateValues, tech : GateValues,
                      news : GateValues]
    /\ gate_ret = IdleGateRet
    /\ technical = [technical_score |-> None, scores |-> [k \in SubKeys |-> None]]
    /\ fundamentals = [fundamental_score |-> None]
    /\ news = [news_sentiment_score |-> None]
    /\ legal = [legal_corporate_score |-> None, has_severe_red_flag |-> FALSE]
    /\ profile = "default"
    /\ pc = "apply_gates"
    /\ frame = NoFrame
    /\ result = NoResult
    /\ rec_score = None
    /\ rec_ret = ""
    /\ IdleMain
    /\ IdleBatch
    /\ IdleInd
    /\ IdleWatch

ApplyGates ==
    /\ pc = "apply_gates"
    /\ gate_ret' = apply_gates(gate_args.rec, gate_args.trend, gate_args.macd,
                               gate_args.adx, gate_args.volume, gate_args.tech,
                               gate_args.news)
    /\ pc' = "done"
    /\ UNCHANGED <<technical, fundamentals, news, legal, profile, frame, result,
                   gate_args, recVars, mainVars, batchVars, indVars, watchVars>>

NextGates == ApplyGates

SpecGates == InitGates /\ [][NextGates]_vars

\* score_stock and apply_gates, each called on its own inputs.
InitEngine == InitScore \/ InitGates

NextEngine == ScoreStock \/ ApplyGates

SpecEngine == InitEngine /\ [][NextEngine]_vars

-----------------------------------------------------------------------------
(* get_recommendation called on its own, any number of times *)

\* Scores passed to get_recommendation: 0.0 .. RecMax / 10 in tenths.
RecMax == 110

InitRec ==
    /\ rec_score = None
    /\ rec_ret = ""
    /\ gate_args = IdleGate
    /\ gate_ret = IdleGateRet
    /\ technical = [technical_score |-> None, scores |-> [k \in SubKeys |-> None]]
    /\ fundamentals = [fundamental_score |-> None]
    /\ news = [news_sentiment_score |-> None]
    /\ legal = [legal_corporate_score |-> None, has_severe_red_flag |-> FALSE]
    /\ profile = "default"
    /\ pc = "get_recommendation"
    /\ frame = NoFrame
    /\ result = NoResult
    /\ IdleMain
    /\ IdleBatch
    /\ IdleInd
    /\ IdleWatch

GetRecommendation ==
    /\ pc = "get_recommendation"
    /\ \E score \in 0..RecMax :
          /\ rec_score' = score
          /\ rec_ret' = get_recommendation(score)
    /\ UNCHANGED <<scoreVars, gateVars, mainVars, batchVars, indVars, watchVars>>

NextRec == GetRecommendation

SpecRec == InitRec /\ [][NextRec]_vars

-----------------------------------------------------------------------------
(* scripts/score_all.py: main *)

\* Holdings in data/holdings.json.
MaxHoldings == 3

\* A symbol is the sequence of its parts: "RELIANCE.NS" is
\* <<"RELIANCE", ".NS">>.
ExchangeSuffixes == {".NS", ".BO"}

\* symbol.replace(".NS", "").replace(".BO", "")
symbol_clean(sym) == SelectSeq(sym, LAMBDA part : part \notin ExchangeSuffixes)

\* symbol if "." in symbol else f"{symbol}.NS"
symbol_yf(sym) == IF \E k \in 1..Len(sym) : sym[k] \in ExchangeSuffixes THEN sym ELSE sym \o <<".NS">>

\* The brokers parse_csv writes, and "unknown" for a holding without one
\* (holding.get("broker", "unknown")).
Brokers == {"zerodha", "groww", "unknown"}

\* broker and broker != "unknown"
KnownBroker(broker) == broker \notin {"", "unknown"}

\* symbol and broker of the holdings a list is made of.
Displays == {[symbol |-> <<"RELIANCE">>, broker |-> b] : b \in Brokers} \cup {[symbol |-> <<"TCS">>, broker |-> "zerodha"]}

\* The holding at position k of data/holdings.json; quantity and average
\* price tell the positions apart.
Holding(d, k) == [symbol |-> d.symbol, symbol_yf |-> d.symbol \o <<".NS">>, broker |-> d.broker, quantity |-> k, avg_price |-> 100 * k]

\* display = f"{holding['symbol']}@{broker}"
Display(holding) == holding.symbol \o <<"@", holding.broker>>

\* The scorer command of a holding: --broker only for a known broker
\* ("" when the option is not given).
ScorerCommand(holding) == [symbol |-> holding.symbol_yf, broker |-> IF KnownBroker(holding.broker) THEN holding.broker ELSE ""]

\* score_stock: next((h for h in holdings if ...), None), the position of
\* the first holding with the symbol, and with the broker if one was given
\* (0 for None).
find_holding(holdings, sym, broker) == LET m == {k \in 1..Len(holdings) : holdings[k].symbol = sym /\ (broker # "" => holdings[k].broker = broker)} IN IF m = {} THEN 0 ELSE CHOOSE k \in m : \A j \in m : k <= j

\* The file a scorer process writes: the holding's fields of the record
\* score_stock returns, under the name main gives the file.
ScorerOutput(holdings, cmd) ==
    LET clean == symbol_clean(cmd.symbol)
        k == find_holding(holdings, clean, cmd.broker)
        holding_broker == IF k # 0 THEN holdings[k].broker ELSE cmd.broker
        result_broker == IF KnownBroker(holding_broker) THEN holding_broker ELSE "unknown"
    IN  [name |-> IF KnownBroker(result_broker)
                  THEN clean \o <<"@", result_broker, ".json">>
                  ELSE symbol_yf(cmd.symbol) \o <<".json">>,
         symbol |-> clean,
         broker |-> result_broker,
         quantity |-> IF k # 0 THEN holdings[k].quantity ELSE 0,
         avg_price |-> IF k # 0 THEN holdings[k].avg_price ELSE 0]

\* open(output_file, "w"): the file of that name is replaced.
WriteScore(dir, file) == {f \in dir : f.name # file.name} \cup {file}

\* Exit codes of a scorer process.
ReturnCodes == {0, 1, 2}

\* Faulty variant: the loop is left at the first failed holding.
Advance_abort(i, total, rc) == IF rc # 0 THEN total ELSE i + 1

\* for i, holding in enumerate(holdings, 1): the next holding, whatever
\* the process returned.
Advance(i, total, rc) == i + 1

InitBatch ==
    /\ \/ \E n \in 0..MaxHoldings :
             /\ \E d \in [1..n -> Displays] :
                   holdings_file = [exists |-> TRUE, holdings |-> [k \in 1..n |-> Holding(d[k], k)]]
             /\ returncode \in [1..n -> ReturnCodes]
       \/ /\ holdings_file = [exists |-> FALSE, holdings |-> <<>>]
          /\ returncode = <<>>
    /\ loop = [total |-> 0, i |-> 0, success |-> 0, failed |-> <<>>, invoked |-> <<>>]
    /\ batch_exit = None
    /\ scores_dir = {}
    /\ pc = "score_all"
    /\ technical = EmptyTechnical
    /\ fundamentals = EmptyFundamentals
    /\ news = EmptyNews
    /\ legal = EmptyLegal
    /\ profile = ""
    /\ frame = NoFrame
    /\ result = NoResult
    /\ gate_args = IdleGate
    /\ gate_ret = IdleGateRet
    /\ rec_score = None
    /\ rec_ret = ""
    /\ IdleMain
    /\ IdleInd
    /\ IdleWatch

\* Lines 17-38: without data/holdings.json the command exits with 1;
\* otherwise the list is loaded and the counters are set.
BatchStart ==
    /\ pc = "score_all"
    /\ IF holdings_file.exists
       THEN /\ loop' = [total |-> Len(holdings_file.holdings), i |-> 0, success |-> 0,
                        failed |-> <<>>, invoked |-> <<>>]
            /\ pc' = "score_all_loop"
            /\ UNCHANGED batch_exit
       ELSE /\ batch_exit' = 1
            /\ pc' = "done"
            /\ UNCHANGED loop
    /\ UNCHANGED <<technical, fundamentals, news, legal, profile, frame, result,
                   holdings_file, returncode, scores_dir, gateVars, recVars, mainVars,
                   indVars, watchVars>>

\* Lines 40-64: one pass of the loop runs the scorer process of the next
\* holding and counts its return code.  loop.invoked lists the positions
\* subprocess.run was called for.  A scorer process that ends with 0 has
\* written its file (score_stock.py main), any other has written nothing.
BatchScore ==
    /\ pc = "score_all_loop"
    /\ loop.i < loop.total
    /\ LET k == loop.i + 1
           rc == returncode[k]
       IN  /\ loop' = [total |-> loop.total,
                    i |-> Advance(loop.i, loop.total, rc),
                    success |-> IF rc = 0 THEN loop.success + 1 ELSE loop.success,
                    failed |-> IF rc = 0 THEN loop.failed
                               ELSE Append(loop.failed, Display(holdings_file.holdings[k])),
                    invoked |-> Append(loop.invoked, k)]
           /\ scores_dir' = IF rc = 0
                            THEN WriteScore(scores_dir, ScorerOutput(holdings_file.holdings, ScorerCommand(holdings_file.holdings[k])))
                            ELSE scores_dir
    /\ UNCHANGED <<technical, fundamentals, news, legal, profile, pc, frame, result,
                   holdings_file, returncode, batch_exit, gateVars, recVars, mainVars,
                   indVars, watchVars>>

\* Lines 66-69: after the loop, exit 1 if any holding failed.
BatchFinish ==
    /\ pc = "score_all_loop"
    /\ loop.i >= loop.total
    /\ batch_exit' = IF loop.failed # <<>> THEN 1 ELSE 0
    /\ pc' = "done"
    /\ UNCHANGED <<technical, fundamentals, news, legal, profile, frame, result,
                   holdings_file, returncode, loop, scores_dir, gateVars, recVars,
                   mainVars, indVars, watchVars>>

NextBatch == BatchStart \/ BatchScore \/ BatchFinish

\* A sequential program with terminating child processes keeps taking steps.
SpecBatch == InitBatch /\ [][NextBatch]_vars /\ WF_vars(NextBatch)

-----------------------------------------------------------------------------
(* scripts/technical_analysis.py: the indicator scorers *)

\* A float that is not a number.  Indicator values are integers in the unit
\* of their thresholds: RSI and ADX in points, %B in hundredths, the volume
\* ratio in tenths.
NaN == -1000

\* pd.isna(x)
isna(x) == x = NaN

\* Comparisons of floats: false when either side is NaN.
Gt(a, b) == ~ isna(a) /\ ~ isna(b) /\ a > b
Lt(a, b) == ~ isna(a) /\ ~ isna(b) /\ a < b

score_rsi(rsi) ==
    IF isna(rsi) THEN 5
    ELSE IF rsi < 25 THEN 4
    ELSE IF rsi < 35 THEN 7
    ELSE IF rsi < 55 THEN 6
    ELSE IF rsi < 70 THEN 5
    ELSE IF rsi < 80 THEN 4
    ELSE 3

score_macd(macd, signal, prev_macd, prev_signal) ==
    IF isna(macd) \/ isna(signal) THEN 5
    ELSE LET macd_above_signal == macd > signal
             rising == IF ~ isna(prev_macd) THEN macd > prev_macd ELSE TRUE
             above_zero == macd > 0
         IN  IF macd_above_signal /\ rising /\ above_zero THEN 9
             ELSE IF macd_above_signal /\ rising THEN 7
             ELSE IF macd_above_signal THEN 5
             ELSE IF above_zero THEN 4
             ELSE 2

\* Faulty variant: the bear-rally test comes before the recovery test.
score_trend_rally_first(close, sma50, sma200) ==
    IF isna(sma50) THEN 5
    ELSE IF isna(sma200) THEN (IF Gt(close, sma50) THEN 7 ELSE 3)
    ELSE IF Gt(close, sma50) /\ sma50 > sma200 THEN 9
    ELSE IF Gt(close, sma50) /\ sma50 < sma200 THEN 5
    ELSE IF Gt(close, sma200) /\ sma200 > sma50 THEN 7
    ELSE IF sma50 > sma200 /\ Lt(close, sma50) THEN 5
    ELSE IF Lt(close, sma50) /\ sma50 < sma200 THEN 2
    ELSE 4

score_trend(close, sma50, sma200) ==
    IF isna(sma50) THEN 5
    ELSE IF isna(sma200) THEN (IF Gt(close, sma50) THEN 7 ELSE 3)
    ELSE IF Gt(close, sma50) /\ sma50 > sma200 THEN 9
    ELSE IF Gt(close, sma200) /\ sma200 > sma50 THEN 7
    ELSE IF Gt(close, sma50) /\ sma50 < sma200 THEN 5
    ELSE IF sma50 > sma200 /\ Lt(close, sma50) THEN 5
    ELSE IF Lt(close, sma50) /\ sma50 < sma200 THEN 2
    ELSE 4

score_bollinger(pctb) ==
    IF isna(pctb) THEN 5
    ELSE IF pctb < 0 THEN 3
    ELSE IF pctb < 20 THEN 5
    ELSE IF pctb < 50 THEN 6
    ELSE IF pctb < 80 THEN 6
    ELSE IF pctb <= 100 THEN 5
    ELSE 4

\* Faulty variant: a NaN ADX is not caught and falls through the comparisons.
score_adx_unguarded(adx, plus_di, minus_di) ==
    LET uptrend == IF ~ (isna(plus_di) \/ isna(minus_di)) THEN plus_di > minus_di ELSE TRUE
    IN  IF Gt(adx, 30) /\ uptrend THEN 9
        ELSE IF Gt(adx, 25) /\ uptrend THEN 7
        ELSE IF Gt(adx, 25) /\ ~ uptrend THEN 2
        ELSE IF ~ isna(adx) /\ adx >= 20 THEN 5
        ELSE 4

score_adx(adx, plus_di, minus_di) ==
    IF isna(adx) THEN 5
    ELSE LET uptrend ==
                 IF ~ (isna(plus_di) \/ isna(minus_di)) THEN plus_di > minus_di ELSE TRUE
         IN  IF adx > 30 /\ uptrend THEN 9
             ELSE IF adx > 25 /\ uptrend THEN 7
             ELSE IF adx > 25 /\ ~ uptrend THEN 2
             ELSE IF adx >= 20 THEN 5
             ELSE 4

score_volume(volume_ratio, is_up_day) ==
    IF isna(volume_ratio) THEN 5
    ELSE IF volume_ratio > 20 THEN (IF is_up_day THEN 9 ELSE 2)
    ELSE IF volume_ratio > 15 THEN (IF is_up_day THEN 7 ELSE 4)
    ELSE IF volume_ratio > 10 THEN 5
    ELSE 5

\* Indicator values drawn for a call: IndSteps steps of 5 from 0 for RSI and
\* ADX, of 10 from -20 for %B, of 5 from 0 for the volume ratio, and NaN.
IndSteps == 20
RsiValues == {5 * i : i \in 0..IndSteps} \cup {NaN}
AdxValues == {5 * i : i \in 0..(IndSteps \div 2)} \cup {NaN}
PctbValues == {10 * i - 20 : i \in 0..IndSteps} \cup {NaN}
VolumeValues == {5 * i : i \in 0..(IndSteps \div 2)} \cup {NaN}

\* MACD and signal values around zero, prices and averages, +DI and -DI.
MacdSpan == 2
MacdValues == (-MacdSpan..MacdSpan) \cup {NaN}
PriceCount == 3
PriceValues == (1..PriceCount) \cup {NaN}
DiValues == {10, 20, NaN}

InitIndicators ==
    /\ \/ /\ pc = "score_rsi"
          /\ ind_args \in [fn : {"score_rsi"}, rsi : RsiValues]
       \/ /\ pc = "score_macd"
          /\ ind_args \in [fn : {"score_macd"}, macd : MacdValues, signal : MacdValues,
                            prev_macd : MacdValues, prev_signal : {0, NaN}]
       \/ /\ pc = "score_trend"
          /\ ind_args \in [fn : {"score_trend"}, close : PriceValues, sma50 : PriceValues,
                            sma200 : PriceValues]
       \/ /\ pc = "score_bollinger"
          /\ ind_args \in [fn : {"score_bollinger"}, pctb : PctbValues]
       \/ /\ pc = "score_adx"
          /\ ind_args \in [fn : {"score_adx"}, adx : AdxValues, plus_di : DiValues,
                            minus_di : DiValues]
       \/ /\ pc = "score_volume"
          /\ ind_args \in [fn : {"score_volume"}, volume_ratio : VolumeValues,
                            is_up_day : BOOLEAN]
    /\ ind_ret = None
    /\ technical = EmptyTechnical
    /\ fundamentals = EmptyFundamentals
    /\ news = EmptyNews
    /\ legal = EmptyLegal
    /\ profile = ""
    /\ frame = NoFrame
    /\ result = NoResult
    /\ gate_args = IdleGate
    /\ gate_ret = IdleGateRet
    /\ rec_score = None
    /\ rec_ret = ""
    /\ IdleMain
    /\ IdleBatch
    /\ IdleWatch

\* What a call leaves alone.
Returns(v) ==
    /\ ind_ret' = v
    /\ pc' = "done"
    /\ UNCHANGED <<technical, fundamentals, news, legal, profile, frame, result, ind_args,
                   gateVars, recVars, mainVars, batchVars, watchVars>>

ScoreRsi ==
    /\ pc = "score_rsi"
    /\ Returns(score_rsi(ind_args.rsi))

ScoreMacd ==
    /\ pc = "score_macd"
    /\ Returns(score_macd(ind_args.macd, ind_args.signal, ind_args.prev_macd,
                          ind_args.prev_signal))

ScoreTrend ==
    /\ pc = "score_trend"
    /\ Returns(score_trend(ind_args.close, ind_args.sma50, ind_args.sma200))

ScoreBollinger ==
    /\ pc = "score_bollinger"
    /\ Returns(score_bollinger(ind_args.pctb))

ScoreAdx ==
    /\ pc = "score_adx"
    /\ Returns(score_adx(ind_args.adx, ind_args.plus_di, ind_args.minus_di))

ScoreVolume ==
    /\ pc = "score_volume"
    /\ Returns(score_volume(ind_args.volume_ratio, ind_args.is_up_day))

NextIndicators ==
    ScoreRsi \/ ScoreMacd \/ ScoreTrend \/ ScoreBollinger \/ ScoreAdx \/ ScoreVolume

SpecIndicators == InitIndicators /\ [][NextIndicators]_vars

-----------------------------------------------------------------------------
(* score_adx of technical_analysis.py feeding compute_confidence of score_stock.py *)

\* The sub-scores score_trend and score_macd can return.
TrendScores ==
    {score_trend(c, a, b) : c \in PriceValues, a \in PriceValues, b \in PriceValues}
MacdScores ==
    {score_macd(m, g, q, 0) : m \in MacdValues, g \in MacdValues, q \in MacdValues}

InitConfidence ==
    /\ pc = "compute_confidence"
    /\ ind_args \in [fn : {"compute_confidence"}, adx : AdxValues, plus_di : DiValues,
                      minus_di : DiValues, trend : TrendScores, macd : MacdScores]
    /\ ind_ret = None
    /\ technical = EmptyTechnical
    /\ fundamentals = EmptyFundamentals
    /\ news = EmptyNews
    /\ legal = EmptyLegal
    /\ profile = ""
    /\ frame = NoFrame
    /\ result = NoResult
    /\ gate_args = IdleGate
    /\ gate_ret = IdleGateRet
    /\ rec_score = None
    /\ rec_ret = ""
    /\ IdleMain
    /\ IdleBatch
    /\ IdleWatch

\* scores["adx"] = score_adx(...) is written to the technical artifact, and
\* score_stock passes the artifact's scores to compute_confidence.
AdxConfidence ==
    /\ pc = "compute_confidence"
    /\ LET adx_score == score_adx(ind_args.adx, ind_args.plus_di, ind_args.minus_di)
           scores == [trend |-> Pt(ind_args.trend), macd |-> Pt(ind_args.macd),
                      adx |-> Pt(adx_score), volume |-> None]
       IN  Returns([adx_score |-> adx_score, confidence |-> compute_confidence(scores)])

NextConfidence == AdxConfidence

SpecConfidence == InitConfidence /\ [][NextConfidence]_vars

-----------------------------------------------------------------------------
(* scripts/technical_analysis.py: load_technical_weights *)

\* required_indicators
Indicators == {"rsi", "macd", "trend", "bollinger", "adx", "volume"}

\* DEFAULT_TECHNICAL_WEIGHTS of utils/config.py: 1/6 each.  A weight is the
\* fraction <<num, den>>.
DEFAULT_WEIGHTS == [k \in Indicators |-> <<1, 6>>]

\* The sum of the six weights of a complete table, in thousandths.
TotalOf(rows) ==
    rows["rsi"] + rows["macd"] + rows["trend"] + rows["bollinger"] + rows["adx"]
    + rows["volume"]

\* abs(total_weight - 1.0) > 0.01 on floats: at a distance of exactly 0.01
\* the rounding error of the float sum decides.
OffByMoreThanTolerance(total) ==
    LET d == IF total >= 1000 THEN total - 1000 ELSE 1000 - total
    IN  IF d > 10 THEN {TRUE} ELSE IF d < 10 THEN {FALSE} ELSE {TRUE, FALSE}

\* Faulty variant: the table is returned as read, whatever its sum.
load_technical_weights_as_read(config) ==
    IF ~ config.exists
    THEN {[weights |-> DEFAULT_WEIGHTS, log |-> "not found"]}
    ELSE IF ~ config.readable
    THEN {[weights |-> DEFAULT_WEIGHTS, log |-> "error"]}
    ELSE IF DOMAIN config.rows # Indicators
    THEN {[weights |-> DEFAULT_WEIGHTS, log |-> "missing indicators"]}
    ELSE {[weights |-> [k \in Indicators |-> <<config.rows[k], 1000>>], log |-> "loaded"]}

\* The outcomes of a call: the weights returned and the message printed.
\* A file that cannot be read as a table of numbers and a total of 0
\* (ZeroDivisionError) end in the except branch.
load_technical_weights(config) ==
    IF ~ config.exists
    THEN {[weights |-> DEFAULT_WEIGHTS, log |-> "not found"]}
    ELSE IF ~ config.readable
    THEN {[weights |-> DEFAULT_WEIGHTS, log |-> "error"]}
    ELSE IF DOMAIN config.rows # Indicators
    THEN {[weights |-> DEFAULT_WEIGHTS, log |-> "missing indicators"]}
    ELSE LET total_weight == TotalOf(config.rows)
         IN  { IF off
               THEN IF total_weight = 0
                    THEN [weights |-> DEFAULT_WEIGHTS, log |-> "error"]
                    ELSE [weights |-> [k \in Indicators |-> <<config.rows[k], total_weight>>],
                          log |-> "normalizing"]
               ELSE [weights |-> [k \in Indicators |-> <<config.rows[k], 1000>>],
                     log |-> "loaded"]
               : off \in OffByMoreThanTolerance(total_weight) }

\* Weights written in config/technical_weights.csv, in thousandths: 0 and
\* WeightSteps steps of 0.005 up from 0.165.
WeightSteps == 1
WeightValues == {0} \cup {165 + 5 * i : i \in 0..WeightSteps}

InitWeights ==
    /\ pc = "load_technical_weights"
    /\ \E S \in SUBSET Indicators :
          ind_args \in [fn : {"load_technical_weights"},
                        config : [exists : {TRUE}, readable : {TRUE},
                                  rows : [S -> WeightValues]]
                                 \cup [exists : BOOLEAN, readable : {FALSE},
                                       rows : [{} -> WeightValues]]]
    /\ ind_ret = None
    /\ technical = EmptyTechnical
    /\ fundamentals = EmptyFundamentals
    /\ news = EmptyNews
    /\ legal = EmptyLegal
    /\ profile = ""
    /\ frame = NoFrame
    /\ result = NoResult
    /\ gate_args = IdleGate
    /\ gate_ret = IdleGateRet
    /\ rec_score = None
    /\ rec_ret = ""
    /\ IdleMain
    /\ IdleBatch
    /\ IdleWatch

LoadTechnicalWeights ==
    /\ pc = "load_technical_weights"
    /\ \E o \in load_technical_weights(ind_args.config) : Returns(o)

NextWeights == LoadTechnicalWeights

SpecWeights == InitWeights /\ [][NextWeights]_vars

-----------------------------------------------------------------------------
(* compute_confidence called on its own *)

\* Sub-scores passed to compute_confidence: 1 .. ConfMax points, or no key.
ConfMax == 10
ConfValues == {Pt(i) : i \in 1..ConfMax} \cup {None}

InitRules ==
    /\ pc = "compute_confidence(scores)"
    /\ ind_args \in [fn : {"compute_confidence(scores)"},
                      scores : [trend : ConfValues, macd : ConfValues, adx : ConfValues,
                                volume : {None}]]
    /\ ind_ret = None
    /\ technical = EmptyTechnical
    /\ fundamentals = EmptyFundamentals
    /\ news = EmptyNews
    /\ legal = EmptyLegal
    /\ profile = ""
    /\ frame = NoFrame
    /\ result = NoResult
    /\ gate_args = IdleGate
    /\ gate_ret = IdleGateRet
    /\ rec_score = None
    /\ rec_ret = ""
    /\ IdleMain
    /\ IdleBatch
    /\ IdleWatch

ComputeConfidence ==
    /\ pc = "compute_confidence(scores)"
    /\ Returns(compute_confidence(ind_args.scores))

NextRules == ComputeConfidence

SpecRules == InitRules /\ [][NextRules]_vars

-----------------------------------------------------------------------------
(* apply_influence_caps called on its own, next to score_stock *)

\* Scores passed to apply_influence_caps: CapSteps half points up from 4.0.
CapSteps == 8
CapValues == {Pt(4) + 5 * i : i \in 0..CapSteps}

InitCaps ==
    /\ pc = "apply_influence_caps"
    /\ ind_args \in [fn : {"apply_influence_caps"}, technical_score : CapValues,
                      fundamental_score : CapValues, news_score : CapValues,
                      legal_score : CapValues]
    /\ ind_ret = None
    /\ technical = EmptyTechnical
    /\ fundamentals = EmptyFundamentals
    /\ news = EmptyNews
    /\ legal = EmptyLegal
    /\ profile = ""
    /\ frame = NoFrame
    /\ result = NoResult
    /\ gate_args = IdleGate
    /\ gate_ret = IdleGateRet
    /\ rec_score = None
    /\ rec_ret = ""
    /\ IdleMain
    /\ IdleBatch
    /\ IdleWatch

ApplyInfluenceCaps ==
    /\ pc = "apply_influence_caps"
    /\ Returns(apply_influence_caps(ind_args.technical_score, ind_args.fundamental_score,
                                    ind_args.news_score, ind_args.legal_score))

InitCapping == InitScore \/ InitCaps

NextCapping == ScoreStock \/ ApplyInfluenceCaps

SpecCapping == InitCapping /\ [][NextCapping]_vars

-----------------------------------------------------------------------------
(* scripts/watchlist_events.py: the event log and its materialized view *)

\* Events in events.jsonl.
MaxEvents == 4

\* utils/helpers.py normalize_symbol: suffixes = [".NS", ".BSE", ".BO", ".NSE"]
Suffixes == {".NS", ".BSE", ".BO", ".NSE"}

\* The empty string, as a sequence of parts.
NoSymbol == <<>>

\* normalize_symbol: the symbol without its exchange suffix.
normalize_symbol(sym) == IF sym # NoSymbol /\ sym[Len(sym)] \in Suffixes THEN SubSeq(sym, 1, Len(sym) - 1) ELSE sym

\* normalize_yf_symbol: a symbol without a dot gets the default suffix.
normalize_yf_symbol(sym, default_suffix) == IF sym = NoSymbol THEN NoSymbol ELSE IF \E k \in 1..Len(sym) : sym[k] \in Suffixes THEN sym ELSE IF default_suffix # "" THEN sym \o <<default_suffix>> ELSE sym

\* --default-suffix when the option is not given.
DefaultSuffix == ".NS"

\* Symbol arguments of the add, remove and note commands.
SymbolArgs == {<<"INFY">>, <<"RECLTD">>, <<"RECLTD", ".BO">>}

\* The tickers these arguments stand for, in the order of str.
TickerOrder == <<(<<"INFY", ".NS">>), (<<"RECLTD", ".BO">>), (<<"RECLTD", ".NS">>)>>

\* cmd_add, cmd_remove, cmd_note: the event a command appends.  Empty
\* fields are dropped from the JSON line and read back as "".
Event(type, arg) == LET yf == normalize_yf_symbol(arg, DefaultSuffix) IN [type |-> type, symbol |-> normalize_symbol(yf), symbol_yf |-> yf]

\* The record materialize_watchlist creates for a ticker it has not seen.
NewRecord(ev) == [symbol |-> normalize_symbol(ev.symbol_yf), symbol_yf |-> ev.symbol_yf, status |-> "ACTIVE"]

\* The status of a record after an event for its ticker.
StatusAfter(status, type) == CASE type = "ADD" -> "ACTIVE" [] type = "REMOVE" -> "REMOVED" [] OTHER -> status

\* materialize_watchlist, the loop over the events: stocks_by_yf as the
\* sequence of its records in insertion order.
RECURSIVE stocks_by_yf(_)
stocks_by_yf(events) ==
    IF events = <<>> THEN <<>>
    ELSE LET prev == stocks_by_yf(SubSeq(events, 1, Len(events) - 1))
             ev == events[Len(events)]
             yf == IF ev.symbol # NoSymbol /\ ev.symbol_yf = NoSymbol THEN ev.symbol ELSE ev.symbol_yf
             recs == IF \E k \in 1..Len(prev) : prev[k].symbol_yf = yf
                     THEN prev
                     ELSE Append(prev, NewRecord([ev EXCEPT !.symbol_yf = yf]))
         IN  IF yf = NoSymbol THEN prev
             ELSE [k \in 1..Len(recs) |->
                      IF recs[k].symbol_yf = yf
                      THEN [recs[k] EXCEPT !.status = StatusAfter(@, ev.type)]
                      ELSE recs[k]]

\* [r for r in stocks_by_yf.values() if r.get("status") == status], sorted
\* by symbol_yf.
Listed(recs, status) == LET has(t) == \E k \in 1..Len(recs) : recs[k].symbol_yf = t /\ recs[k].status = status tickers == SelectSeq(TickerOrder, has) IN [i \in 1..Len(tickers) |-> CHOOSE r \in {recs[k] : k \in 1..Len(recs)} : r.symbol_yf = tickers[i]]

\* The notes without a symbol.
GlobalNote(ev) == ev.type = "NOTE" /\ ev.symbol_yf = NoSymbol /\ ev.symbol = NoSymbol

\* materialize_watchlist: the view of an event list.
materialize_watchlist(events) == LET recs == stocks_by_yf(events) IN [events_count |-> Len(events), notes |-> SelectSeq(events, GlobalNote), stocks |-> Listed(recs, "ACTIVE"), removed |-> Listed(recs, "REMOVED")]

\* append_event: one more line at the end of the file.
append_event(file, ev) == Append(file, ev)

InitWatchlist ==
    /\ events_file = <<>>
    /\ view_file = None
    /\ pc = "watchlist_events"
    /\ technical = EmptyTechnical
    /\ fundamentals = EmptyFundamentals
    /\ news = EmptyNews
    /\ legal = EmptyLegal
    /\ profile = ""
    /\ frame = NoFrame
    /\ result = NoResult
    /\ gate_args = IdleGate
    /\ gate_ret = IdleGateRet
    /\ rec_score = None
    /\ rec_ret = ""
    /\ IdleMain
    /\ IdleBatch
    /\ IdleInd

\* A command that has appended its event returns; another may follow.
Appends(ev) ==
    /\ events_file' = append_event(events_file, ev)
    /\ pc' = "watchlist_events"
    /\ UNCHANGED <<technical, fundamentals, news, legal, profile, frame, result, view_file,
                   gateVars, recVars, mainVars, batchVars, indVars>>

\* watchlist_events.py add <watchlist_id> <symbol>
CmdAdd ==
    /\ Len(events_file) < MaxEvents
    /\ \E arg \in SymbolArgs : Appends(Event("ADD", arg))

\* watchlist_events.py remove <watchlist_id> <symbol>
CmdRemove ==
    /\ Len(events_file) < MaxEvents
    /\ \E arg \in SymbolArgs : Appends(Event("REMOVE", arg))

\* watchlist_events.py note <watchlist_id> [<symbol>] --text ...
CmdNote ==
    /\ Len(events_file) < MaxEvents
    /\ \E arg \in SymbolArgs \cup {NoSymbol} : Appends(Event("NOTE", arg))

\* watchlist_events.py rebuild <watchlist_id>: the view of the whole log
\* replaces watchlist.json.
CmdRebuild ==
    /\ view_file' = materialize_watchlist(events_file)
    /\ pc' = "done"
    /\ UNCHANGED <<technical, fundamentals, news, legal, profile, frame, result, events_file,
                   gateVars, recVars, mainVars, batchVars, indVars>>

NextWatchlist == CmdAdd \/ CmdRemove \/ CmdNote \/ CmdRebuild

SpecWatchlist == InitWatchlist /\ [][NextWatchlist]_vars

-----------------------------------------------------------------------------
(* Properties *)

\* The components whose artifact carries a score.
PresentIn ==
    (IF technical.technical_score # None THEN {"technical"} ELSE {})
    \cup (IF fundamentals.fundamental_score # None THEN {"fundamental"} ELSE {})
    \cup (IF news.news_sentiment_score # None THEN {"news_sentiment"} ELSE {})
    \cup (IF legal.legal_corporate_score # None THEN {"legal_corporate"} ELSE {})

Scored == pc = "done" /\ result # NoResult /\ ~ result.raised
FullyCovered == Cardinality(PresentIn) = 4
Gated == pc = "done" /\ gate_ret # IdleGateRet

BuySide == {"BUY", "STRONG BUY"}

\* STRONG BUY > BUY > HOLD > SELL > STRONG SELL
Rank(r) ==
    CASE r = "STRONG BUY" -> 5
      [] r = "BUY" -> 4
      [] r = "HOLD" -> 3
      [] r = "SELL" -> 2
      [] r = "STRONG SELL" -> 1

\* C1: with fewer than four components present score_stock returns
\* "INSUFFICIENT DATA", the single flag "missing_data" and confidence "N/A",
\* whatever the overall score is.
C1_InsufficientData ==
    (Scored /\ Cardinality(PresentIn) < 4) =>
        /\ result.recommendation = "INSUFFICIENT DATA"
        /\ result.gate_flags = <<"missing_data">>
        /\ result.confidence = "N/A"

\* Three components present and a score that would map to STRONG BUY.
C1_Witness ==
    /\ Scored
    /\ Cardinality(PresentIn) = 3
    /\ result.overall_score >= THRESHOLDS.strong_buy
    /\ result.recommendation = "INSUFFICIENT DATA"

\* C2: apply_gates never returns a recommendation more bullish than the one
\* it was given; HOLD, SELL and STRONG SELL come back unchanged, and a
\* demotion never goes below HOLD.
C2_GateMonotone ==
    Gated =>
        /\ Rank(gate_ret.rec) <= Rank(gate_args.rec)
        /\ (gate_args.rec \notin BuySide => gate_ret.rec = gate_args.rec)
        /\ (gate_ret.rec # gate_args.rec => Rank(gate_ret.rec) >= Rank("HOLD"))

\* A STRONG BUY demoted to HOLD, and a SELL that meets gate 2's score test.
C2_Witness ==
    /\ Gated
    /\ \/ gate_args.rec = "STRONG BUY" /\ gate_ret.rec = "HOLD"
       \/ /\ gate_args.rec = "SELL"
          /\ gate_args.adx # None /\ gate_args.adx <= Pt(4)
          /\ gate_args.volume = None
          /\ gate_ret.rec = "SELL"
\* C3: with all four components present and technical_score < 5 the final
\* recommendation is never BUY or STRONG BUY.
C3_WeakTechnicalNeverBuy ==
    (Scored /\ FullyCovered /\ technical.technical_score < Pt(5)) =>
        result.recommendation \notin BuySide

Contains(flags, f) == \E i \in 1..Len(flags) : flags[i] = f

\* C4: with all four components present and a trend sub-score below 5 the
\* final recommendation is never BUY or STRONG BUY; a threshold-mapped BUY or
\* STRONG BUY ends as HOLD with the flag "weak_trend_gate".
C4_WeakTrendGate ==
    (/\ Scored
     /\ FullyCovered
     /\ technical.scores.trend # None
     /\ technical.scores.trend < Pt(5)) =>
        /\ result.recommendation \notin BuySide
        /\ frame.initial \in BuySide =>
              /\ result.recommendation = "HOLD"
              /\ Contains(result.gate_flags, "weak_trend_gate")

\* A score that maps to STRONG BUY, held back by a trend sub-score of 4.
C4_Witness ==
    /\ Scored
    /\ FullyCovered
    /\ technical.scores.trend = Pt(4)
    /\ frame.initial = "STRONG BUY"
    /\ result.recommendation = "HOLD"
    /\ result.gate_flags = <<"weak_trend_gate">>

\* trend >= 7, macd >= 6 and adx >= 6, a missing sub-score counting as 5.
Aligned(trend, macd, adx) ==
    /\ (IF trend = None THEN Pt(5) ELSE trend) >= Pt(7)
    /\ (IF macd = None THEN Pt(5) ELSE macd) >= Pt(6)
    /\ (IF adx = None THEN Pt(5) ELSE adx) >= Pt(6)

\* C5: a STRONG BUY returned by apply_gates, and by score_stock, has
\* trend >= 7, macd >= 6 and adx >= 6 with a missing sub-score counted as 5;
\* with any of the three missing the outcome is never STRONG BUY.
C5_StrongBuyAligned ==
    /\ (Gated /\ gate_ret.rec = "STRONG BUY") =>
          Aligned(gate_args.trend, gate_args.macd, gate_args.adx)
    /\ (Scored /\ result.recommendation = "STRONG BUY") =>
          Aligned(technical.scores.trend, technical.scores.macd, technical.scores.adx)
    /\ (Gated /\ None \in {gate_args.trend, gate_args.macd, gate_args.adx}) =>
          gate_ret.rec # "STRONG BUY"
    /\ (Scored /\ None \in {technical.scores.trend, technical.scores.macd,
                            technical.scores.adx}) =>
          result.recommendation # "STRONG BUY"

\* A STRONG BUY that stands, and one demoted because a sub-score is missing.
C5_Witness ==
    \/ /\ Gated
       /\ gate_args.rec = "STRONG BUY"
       /\ gate_args.trend = Pt(7) /\ gate_args.macd = Pt(6) /\ gate_args.adx = Pt(6)
       /\ gate_ret.rec = "STRONG BUY"
    \/ /\ Scored
       /\ frame.initial = "STRONG BUY"
       /\ technical.scores.macd = None
       /\ result.recommendation = "BUY"
       /\ result.gate_flags = <<"strong_buy_alignment_failed">>
InputsAre(a) ==
    /\ technical = a.technical
    /\ fundamentals = a.fundamentals
    /\ news = a.news
    /\ legal = a.legal
    /\ profile = a.profile

ScenarioA(p) == Artifacts(Pt(9), Pt(8), Pt(9), Pt(8), FALSE, SubsA, p)

\* C6: with all four components present, no severe red flag, a rounded
\* overall score >= 8.0 and sub-scores trend >= 7, macd >= 6, adx >= 6, the
\* outcome is STRONG BUY with no gate flag and confidence HIGH; technical 9,
\* fundamental 8, news 9, legal 8, trend 8, macd 7, adx 7, volume 7 is such
\* an input under each profile.
C6_StrongBuyStands ==
    /\ (/\ Scored
        /\ FullyCovered
        /\ ~ legal.has_severe_red_flag
        /\ result.overall_score >= Pt(8)
        /\ technical.scores.trend >= Pt(7)
        /\ technical.scores.macd >= Pt(6)
        /\ technical.scores.adx >= Pt(6)) =>
          /\ result.recommendation = "STRONG BUY"
          /\ result.gate_flags = <<>>
          /\ result.confidence = "HIGH"
    /\ \A p \in ProfileNames :
          (Scored /\ InputsAre(ScenarioA(p))) => result.overall_score >= Pt(8)

\* Scenario A scored under the default profile.
C6_Witness ==
    /\ Scored
    /\ InputsAre(ScenarioA("default"))
    /\ result.recommendation = "STRONG BUY"
    /\ result.confidence = "HIGH"

\* C7: with all four components present, technical_score < 5 and a raw news
\* score >= 8, the weighted sum uses a fundamental score of at most 7.0 and a
\* news score of at most 6.0, while gate 3 compares the raw news score: a
\* threshold-mapped BUY ends as HOLD, by gate 3 unless gate 1 or 2 fired.
C7_CappedSumRawGate ==
    (/\ Scored
     /\ FullyCovered
     /\ technical.technical_score < Pt(5)
     /\ news.news_sentiment_score >= Pt(8)) =>
        /\ frame.active_scores["fundamental"] <= 70
        /\ frame.active_scores["news_sentiment"] <= 60
        /\ frame.initial = "BUY" =>
              /\ result.recommendation = "HOLD"
              /\ \/ Contains(result.gate_flags, "weak_trend_gate")
                 \/ Contains(result.gate_flags, "trendless_no_volume_gate")
                 \/ Contains(result.gate_flags, "sentiment_without_confirmation")

\* A capped sum that maps to BUY, demoted by gate 3 alone.
C7_Witness ==
    /\ Scored
    /\ FullyCovered
    /\ technical.technical_score < Pt(5)
    /\ news.news_sentiment_score >= Pt(8)
    /\ fundamentals.fundamental_score > 70
    /\ frame.initial = "BUY"
    /\ result.recommendation = "HOLD"
    /\ result.gate_flags = <<"sentiment_without_confirmation">>

\* C8: with has_severe_red_flag set the overall score is at most 5.0, so with
\* all four components present the outcome is HOLD, SELL or STRONG SELL; a
\* weighted sum of 9.0 gives overall score 5.0 and HOLD.
C8_RedFlagCap ==
    (Scored /\ legal.has_severe_red_flag) =>
        /\ result.overall_score <= Pt(5)
        /\ FullyCovered => result.recommendation \in {"HOLD", "SELL", "STRONG SELL"}
        /\ (FullyCovered /\ frame.raw[1] = Pt(9) * frame.raw[2]) =>
              /\ result.overall_score = Pt(5)
              /\ result.recommendation = "HOLD"

\* A red-flagged stock whose weighted sum is 9.0.
C8_Witness ==
    /\ Scored
    /\ FullyCovered
    /\ legal.has_severe_red_flag
    /\ frame.raw[1] = Pt(9) * frame.raw[2]
    /\ result.overall_score = Pt(5)
    /\ result.recommendation = "HOLD"

\* The threshold table with inclusive lower bounds.
Table(score) ==
    CASE score >= 80 -> "STRONG BUY"
      [] 65 <= score /\ score < 80 -> "BUY"
      [] 45 <= score /\ score < 65 -> "HOLD"
      [] 30 <= score /\ score < 45 -> "SELL"
      [] score < 30 -> "STRONG SELL"

\* C9: get_recommendation returns STRONG BUY for score >= 8.0, BUY for
\* 6.5 <= score < 8.0, HOLD for 4.5 <= score < 6.5, SELL for
\* 3.0 <= score < 4.5 and STRONG SELL below 3.0, after any earlier calls.
C9_ThresholdTable ==
    rec_score # None => rec_ret = Table(rec_score)

\* A score on a lower bound: 6.5 is BUY.
C9_Witness ==
    rec_score = 65 /\ rec_ret = "BUY"

RECURSIVE SumOver(_, _)
SumOver(f, S) ==
    IF S = {} THEN 0
    ELSE LET k == CHOOSE x \in S : TRUE IN f[k] + SumOver(f, S \ {k})

\* C10: for a non-empty set of present components the weights of the weighted
\* sum are the profile weights of the present components over their total,
\* are positive and sum to 1; an absent component has no weight.
C10_Renormalized ==
    (Scored /\ PresentIn # {}) =>
        LET nw == frame.normalized_weights
            total == SumOver(SCORING_PROFILES[profile], PresentIn)
        IN  /\ DOMAIN nw = PresentIn
            /\ \A k \in PresentIn :
                  /\ nw[k] = <<SCORING_PROFILES[profile][k], total>>
                  /\ nw[k][1] > 0
                  /\ nw[k][2] > 0
            /\ SumOver([k \in PresentIn |-> nw[k][1]], PresentIn) = total

\* Technical and fundamental only, under the swing profile: 60/80 and 20/80.
C10_Witness ==
    /\ Scored
    /\ PresentIn = {"technical", "fundamental"}
    /\ profile = "watchlist_swing"
    /\ frame.normalized_weights = [technical |-> <<60, 80>>, fundamental |-> <<20, 80>>]

\* Every present component score lies in [1, 10].
ScoresInRange ==
    /\ technical.technical_score \in {None} \cup (Pt(1)..Pt(10))
    /\ fundamentals.fundamental_score \in {None} \cup (Pt(1)..Pt(10))
    /\ news.news_sentiment_score \in {None} \cup (Pt(1)..Pt(10))
    /\ legal.legal_corporate_score \in {None} \cup (Pt(1)..Pt(10))

\* C11: with every present component score in [1, 10] the overall score lies
\* in [1, 10] after the influence caps and the red-flag cap, before rounding
\* (the fraction frame.capped) and after it, under every coverage pattern,
\* profile and red-flag value; with no component present it is 5.0.
C11_OverallInRange ==
    (Scored /\ ScoresInRange) =>
        /\ Pt(1) * frame.capped[2] <= frame.capped[1]
        /\ frame.capped[1] <= Pt(10) * frame.capped[2]
        /\ result.overall_score \in Pt(1)..Pt(10)
        /\ (PresentIn = {} => result.overall_score = Pt(5))

\* No component at all, and the artifact-less legal record flags nothing.
C11_Witness ==
    /\ Scored
    /\ PresentIn = {}
    /\ frame.capped = <<Pt(5), 1>>
    /\ result.overall_score = Pt(5)

\* The recommendation and flags that follow from what a caller can observe:
\* coverage, the rounded overall score, the sub-scores and the technical and
\* news scores.
FromObservables(coverage, overall_score, scores, technical_score, news_score) ==
    IF Cardinality(coverage) < 4
    THEN [rec |-> "INSUFFICIENT DATA", flags |-> <<"missing_data">>]
    ELSE apply_gates(get_recommendation(overall_score), Get(scores, "trend"),
                     Get(scores, "macd"), Get(scores, "adx"), Get(scores, "volume"),
                     technical_score, news_score)

\* C12: the final recommendation and gate_flags are a function of coverage,
\* the rounded overall score and the trend, macd, adx, volume, technical and
\* news scores alone, so two calls that agree on these agree on both,
\* whatever their fundamental score, legal score, profile and red flag are.
C12_NoHiddenInputs ==
    Scored =>
        LET o == FromObservables(result.coverage, result.overall_score, technical.scores,
                                 result.technical_score, result.news_sentiment_score)
        IN  /\ result.recommendation = o.rec
            /\ result.gate_flags = o.flags

\* A gated call for which a second call with another fundamental score,
\* legal score and profile ends on the same coverage and overall score.
C12_Witness ==
    /\ Scored
    /\ FullyCovered
    /\ result.gate_flags # <<>>
    /\ \E f \in ScoreValues, l \in ScoreValues, flag \in BOOLEAN, p \in ProfileNames :
          /\ f # fundamentals.fundamental_score
          /\ l # legal.legal_corporate_score
          /\ p # profile
          /\ \E o \in score_stock(technical, [fundamental_score |-> f], news,
                                  [legal_corporate_score |-> l,
                                   has_severe_red_flag |-> flag], p) :
                /\ o[2].coverage = result.coverage
                /\ o[2].overall_score = result.overall_score
                /\ o[2].recommendation = result.recommendation
                /\ o[2].gate_flags = result.gate_flags

\* The score field of a component's artifact.
ScoreField(k) ==
    CASE k = "technical" -> technical.technical_score
      [] k = "fundamental" -> fundamentals.fundamental_score
      [] k = "news_sentiment" -> news.news_sentiment_score
      [] OTHER -> legal.legal_corporate_score

\* The score score_stock reports for a component.
ReportedScore(k) ==
    CASE k = "technical" -> result.technical_score
      [] k = "fundamental" -> result.fundamental_score
      [] k = "news_sentiment" -> result.news_sentiment_score
      [] OTHER -> result.legal_corporate_score

\* C16: a component whose score field is absent, null or not a JSON number
\* (string, boolean, list, object) is reported as None and left out of
\* coverage and of the weighted sum; coverage is exactly the set of
\* components whose score field is a number.
C16_NonNumericMissing ==
    Scored =>
        /\ result.coverage = {k \in Components : ScoreField(k) >= 0}
        /\ \A k \in Components :
              ScoreField(k) < 0 =>
                 /\ ReportedScore(k) = None
                 /\ k \notin DOMAIN frame.normalized_weights

\* A process of the score_stock command has run with a symbol argument.
Ran == runs >= 1 /\ symbol # ""

\* The artifact files in a given state.
FilesIn(state) == {k \in Components : files[k] = state}

\* The profile argument, trimmed, names no profile.
UnknownProfile ==
    LET trimmed == strip(profile)
    IN  profile # "" /\ trimmed \notin {"default", "watchlist_swing", "portfolio_long_term"}

\* C13: with unchanged artifacts, symbol and profile every run after a
\* successful one leaves the same record in the output file and returns the
\* same result; the file holds what the run computed, whatever it held before.
C13_Idempotent ==
    /\ []((Ran /\ exit_code = 0) => out_file = <<result>>)
    /\ [][(Ran /\ exit_code = 0) =>
             (out_file' = out_file /\ result' = result /\ exit_code' = 0)]_vars

\* A second run over the record the first run wrote.
C13_Witness ==
    /\ runs = 2
    /\ exit_code = 0
    /\ out_file = <<result>>
    /\ result.recommendation \in Recommendations
    /\ result.overall_score # StaleRecord.overall_score

\* C14: a profile argument that, trimmed, is none of default,
\* watchlist_swing, portfolio_long_term makes score_stock raise: the process
\* exits with 1, no recommendation is computed and the output file is
\* neither written nor overwritten.
C14_UnknownProfileFails ==
    (Ran /\ UnknownProfile) =>
        /\ result.raised
        /\ result.recommendation = ""
        /\ result.overall_score = None
        /\ exit_code = 1
        /\ out_file \in {<<>>, <<StaleRecord>>}

\* An unknown name with all four artifacts readable and an earlier record on
\* disk, which is still there.
C14_Witness ==
    /\ Ran
    /\ profile = " swing "
    /\ FilesIn("ok") = Components
    /\ exit_code = 1
    /\ out_file = <<StaleRecord>>

\* C15: an artifact that exists but is not JSON is handled like an absent
\* one: scoring returns without raising, the component is missing from
\* coverage, the record says INSUFFICIENT DATA and the process exits with 0.
C15_UnparsableLikeAbsent ==
    (Ran /\ ~ UnknownProfile /\ FilesIn("garbage") # {}) =>
        /\ ~ result.raised
        /\ result.coverage \cap FilesIn("garbage") = {}
        /\ result.recommendation = "INSUFFICIENT DATA"
        /\ exit_code = 0
        /\ out_file = <<result>>

\* The process wrote a score record.
Wrote == ~ result.raised /\ result # NoResult /\ out_file = <<result>>

\* C17 as stated: exit code 0 exactly when a record was written, and a
\* non-zero exit code when upstream data of the symbol is missing.
C17_MissingDataNonZero ==
    Ran =>
        /\ exit_code = 0 <=> Wrote
        /\ FilesIn("missing") # {} => exit_code # 0

\* C17: the process exits with 0 exactly when it wrote a score record, and
\* with 1 otherwise; it exits with 1 exactly when no symbol is given, the
\* profile is unknown or an artifact is not JSON.  Missing artifacts alone
\* end in exit code 0 with an INSUFFICIENT DATA record.
C17_ExitCode ==
    runs >= 1 =>
        /\ exit_code \in {0, 1}
        /\ exit_code = 0 <=> Wrote
        /\ exit_code = 1 <=> (symbol = "" \/ UnknownProfile \/ FilesIn("garbage") # {})
        /\ (exit_code = 0 /\ FilesIn("missing") # {}) =>
               result.recommendation = "INSUFFICIENT DATA"

\* All four artifacts missing: an INSUFFICIENT DATA record and exit code 0.
C17_Witness ==
    /\ Ran
    /\ FilesIn("missing") = Components
    /\ exit_code = 0
    /\ Wrote
    /\ result.recommendation = "INSUFFICIENT DATA"

\* The positions among the first i holdings whose scorer process failed.
FailedUpTo(i) == {k \in 1..i : returncode[k] # 0}

\* C18: score_all runs the scorer once per holding, in list order and
\* without retry, whatever earlier holdings returned; it terminates, and
\* then succeeded + failed = total and the exit code is non-zero exactly
\* when a holding failed.
C18_BatchScoresAll ==
    /\ [](holdings_file.exists =>
            /\ loop.invoked = [k \in 1..loop.i |-> k]
            /\ Len(loop.failed) = Cardinality(FailedUpTo(loop.i))
            /\ loop.success + Len(loop.failed) = loop.i)
    /\ []((holdings_file.exists /\ pc = "done") =>
            /\ loop.total = Len(holdings_file.holdings)
            /\ loop.invoked = [k \in 1..loop.total |-> k]
            /\ loop.success + Len(loop.failed) = loop.total
            /\ batch_exit \in {0, 1}
            /\ batch_exit # 0 <=> FailedUpTo(loop.total) # {})
    /\ <>(pc = "done")

\* The first holding fails, the later ones are scored all the same.
C18_Witness ==
    /\ pc = "done"
    /\ Len(holdings_file.holdings) >= 3
    /\ returncode[1] # 0
    /\ returncode[2] = 0
    /\ loop.invoked = <<1, 2, 3>>
    /\ loop.success = 2
    /\ loop.failed = <<Display(holdings_file.holdings[1])>>
    /\ batch_exit = 1

\* An indicator scorer has returned.
Returned(fn) == pc = "done" /\ ind_args.fn = fn

\* The indicator value of the call is NaN: rsi; macd or signal; SMA50; %B;
\* adx; the volume ratio.
IndicatorIsNaN ==
    CASE ind_args.fn = "score_rsi" -> isna(ind_args.rsi)
      [] ind_args.fn = "score_macd" -> isna(ind_args.macd) \/ isna(ind_args.signal)
      [] ind_args.fn = "score_trend" -> isna(ind_args.sma50)
      [] ind_args.fn = "score_bollinger" -> isna(ind_args.pctb)
      [] ind_args.fn = "score_adx" -> isna(ind_args.adx)
      [] ind_args.fn = "score_volume" -> isna(ind_args.volume_ratio)

\* C19: each of the six indicator scorers returns for every input, the value
\* is an integer from 1 to 10, and it is 5 whenever the indicator value is
\* NaN.
C19_ScorersTotal ==
    /\ pc # "done" => ENABLED NextIndicators
    /\ pc = "done" =>
          /\ ind_ret \in 1..10
          /\ IndicatorIsNaN => ind_ret = 5

\* A NaN ADX with both directional indicators known.
C19_Witness ==
    /\ Returned("score_adx")
    /\ isna(ind_args.adx)
    /\ ~ isna(ind_args.plus_di)
    /\ ~ isna(ind_args.minus_di)
    /\ ind_ret = 5

\* C20: with a raw ADX below 20 score_adx returns 4, and compute_confidence
\* on that sub-score does not return HIGH, whatever trend and macd are.
C20_LowAdxNeverHigh ==
    (Returned("compute_confidence") /\ ~ isna(ind_args.adx) /\ ind_args.adx < 20) =>
        /\ ind_ret.adx_score = 4
        /\ ind_ret.confidence # "HIGH"

\* An argument of apply_gates as the gates compare it: None is 5.
GateArg(k) == IF gate_args[k] = None THEN 50 ELSE gate_args[k]

\* The four gates one after the other, each on the recommendation the
\* earlier ones left, as <<recommendation, flags>>.
SequentialGates ==
    LET r0 == gate_args.rec
        fire1 == GateArg("trend") < 50 /\ r0 \in {"BUY", "STRONG BUY"}
        r1 == IF fire1 THEN "HOLD" ELSE r0
        f1 == IF fire1 THEN <<"weak_trend_gate">> ELSE <<>>
        fire2 == GateArg("adx") <= 40 /\ GateArg("volume") < 60 /\ r1 \in {"BUY", "STRONG BUY"}
        r2 == IF fire2 THEN "HOLD" ELSE r1
        f2 == IF fire2 THEN f1 \o <<"trendless_no_volume_gate">> ELSE f1
        fire3 == GateArg("news") >= 80 /\ GateArg("tech") < 50 /\ r2 = "BUY"
        r3 == IF fire3 THEN "HOLD" ELSE r2
        f3 == IF fire3 THEN f2 \o <<"sentiment_without_confirmation">> ELSE f2
        fire4 == /\ r3 = "STRONG BUY"
                 /\ ~ (GateArg("trend") >= 70 /\ GateArg("macd") >= 60 /\ GateArg("adx") >= 60)
        r4 == IF fire4 THEN "BUY" ELSE r3
        f4 == IF fire4 THEN f3 \o <<"strong_buy_alignment_failed">> ELSE f3
    IN  <<r4, f4>>

\* C21: for every input apply_gates returns the recommendation and the flags
\* of the four gates run in the order weak_trend_gate,
\* trendless_no_volume_gate, sentiment_without_confirmation,
\* strong_buy_alignment_failed, each on the recommendation left by the
\* earlier ones.
C21_SequentialGates ==
    Gated => <<gate_ret.rec, gate_ret.flags>> = SequentialGates

\* A misaligned STRONG BUY with a weak trend: gate 1 takes it to HOLD and
\* gate 4 has nothing left to demote.
C21_Witness ==
    /\ Gated
    /\ gate_args.rec = "STRONG BUY"
    /\ gate_args.trend = Pt(4)
    /\ gate_args.macd = Pt(4)
    /\ gate_ret = [rec |-> "HOLD", flags |-> <<"weak_trend_gate">>]

\* C27: apply_gates returns at most one flag, and it returns a flag exactly
\* when the recommendation it returns differs from the one it was given.
C27_AtMostOneFlag ==
    Gated =>
        /\ Len(gate_ret.flags) <= 1
        /\ gate_ret.flags # <<>> <=> gate_ret.rec # gate_args.rec

\* A STRONG BUY that meets the tests of gate 1, gate 2 and gate 4 at once
\* and comes back with the flag of gate 1 alone.
C27_Witness ==
    /\ Gated
    /\ gate_args.rec = "STRONG BUY"
    /\ gate_args.trend = Pt(4)
    /\ gate_args.adx = Pt(4)
    /\ gate_args.volume = Pt(5)
    /\ gate_args.news = Pt(8)
    /\ gate_args.tech = Pt(4)
    /\ Len(gate_ret.flags) = 1

Sub(k) == IF ind_args.scores[k] = None THEN 50 ELSE ind_args.scores[k]

\* The conditions of rules 1 to 4 on the sub-scores of the call.
Rule(n) ==
    LET t == Sub("trend")
        m == Sub("macd")
        a == Sub("adx")
    IN  CASE n = 1 -> (t >= 60 \/ m >= 60 \/ a >= 60) /\ (t <= 40 \/ m <= 40 \/ a <= 40)
          [] n = 2 -> m >= 70 /\ t < 50
          [] n = 3 -> a < 40
          [] n = 4 -> (t >= 60 /\ m >= 60 /\ a >= 60) \/ (t <= 40 /\ m <= 40 /\ a <= 40)

\* The result of the first rule among the given ones whose condition holds.
FirstMatch(rules) ==
    IF 1 \in rules /\ Rule(1) THEN "LOW"
    ELSE IF 2 \in rules /\ Rule(2) THEN "LOW"
    ELSE IF 3 \in rules /\ Rule(3) THEN "LOW"
    ELSE IF 4 \in rules /\ Rule(4) THEN "HIGH"
    ELSE "MEDIUM"

C29_Rule2Redundant ==
    (/\ Returned("compute_confidence(scores)")
     /\ \A k \in {"trend", "macd", "adx"} : Sub(k) \in {Pt(i) : i \in 1..10}) =>
        /\ Rule(2) => Rule(1)
        /\ ind_ret = FirstMatch({1, 3, 4})

\* The condition of rule 2 holds with a neutral adx: macd 7 and trend 4.
C29_Witness ==
    /\ Returned("compute_confidence(scores)")
    /\ ind_args.scores.macd = Pt(7)
    /\ ind_args.scores.trend = Pt(4)
    /\ ind_args.scores.adx = Pt(5)
    /\ Rule(2)
    /\ ind_ret = "LOW"

\* x capped at c when the technical score t is below 5.
CappedAt(t, x, c) == IF t < 50 /\ x > c THEN c ELSE x

\* C23: apply_influence_caps returns (min(fundamental, 7.0), min(news, 6.0),
\* legal) when technical < 5 and its arguments unchanged otherwise; legal is
\* never changed and no value grows.  In score_stock the capped values enter
\* the sum for present components only: a missing fundamental or news score
\* stays missing, and with technical missing nothing is capped.
C23_InfluenceCaps ==
    /\ Returned("apply_influence_caps") =>
          /\ ind_ret = <<CappedAt(ind_args.technical_score, ind_args.fundamental_score, 70),
                         CappedAt(ind_args.technical_score, ind_args.news_score, 60),
                         ind_args.legal_score>>
          /\ ind_ret[1] <= ind_args.fundamental_score
          /\ ind_ret[2] <= ind_args.news_score
    /\ Scored =>
          LET t == technical.technical_score
              capping == t # None
              active == frame.active_scores
          IN  /\ DOMAIN active = PresentIn
              /\ "technical" \in PresentIn => active.technical = t
              /\ "legal_corporate" \in PresentIn =>
                    active.legal_corporate = legal.legal_corporate_score
              /\ "fundamental" \in PresentIn =>
                    active.fundamental =
                        IF capping THEN CappedAt(t, fundamentals.fundamental_score, 70)
                        ELSE fundamentals.fundamental_score
              /\ "news_sentiment" \in PresentIn =>
                    active.news_sentiment =
                        IF capping THEN CappedAt(t, news.news_sentiment_score, 60)
                        ELSE news.news_sentiment_score

\* A weak technical score caps a fundamental 10 at 7.0 while the missing
\* news score stays out of the sum.
C23_Witness ==
    /\ Scored
    /\ technical.technical_score = Pt(4)
    /\ fundamentals.fundamental_score = Pt(10)
    /\ news.news_sentiment_score = None
    /\ frame.active_scores.fundamental = Pt(7)
    /\ "news_sentiment" \notin DOMAIN frame.active_scores

\* a > b on values of which any may be unavailable.
Above(a, b) == a # NaN /\ b # NaN /\ a > b

\* The trend table, its cases read in the order they are listed.
TrendTable(c, s50, s200) ==
    IF s50 = NaN THEN 5
    ELSE IF s200 = NaN THEN (IF Above(c, s50) THEN 7 ELSE 3)
    ELSE IF Above(c, s50) /\ Above(s50, s200) THEN 9
    ELSE IF Above(c, s200) /\ Above(s200, s50) THEN 7
    ELSE IF Above(c, s50) /\ Above(s200, s50) THEN 5
    ELSE IF Above(s50, s200) /\ Above(s50, c) THEN 5
    ELSE IF Above(s50, c) /\ Above(s200, s50) THEN 2
    ELSE 4

\* C26: score_trend returns 5 without SMA50; without SMA200 only, 7 if
\* close > SMA50 else 3; otherwise 9 for close > SMA50 > SMA200, 7 for
\* close > SMA200 > SMA50, 5 for a bear rally, 5 for a pullback in an
\* uptrend, 2 for close < SMA50 < SMA200 and 4 in every remaining case.
C26_TrendTable ==
    Returned("score_trend") =>
        ind_ret = TrendTable(ind_args.close, ind_args.sma50, ind_args.sma200)

\* The recovering stack, which also meets the bear-rally test, scores 7.
C26_Witness ==
    /\ Returned("score_trend")
    /\ ind_args.sma50 = 1
    /\ ind_args.sma200 = 2
    /\ ind_args.close = 3
    /\ ind_ret = 7

\* The configuration of the call lists all six indicators.
CompleteConfig ==
    /\ ind_args.config.exists
    /\ ind_args.config.readable
    /\ DOMAIN ind_args.config.rows = Indicators

\* The returned weights sum to num / den; all six have the denominator den.
ReturnedSum ==
    LET w == ind_ret.weights
    IN  <<w["rsi"][1] + w["macd"][1] + w["trend"][1] + w["bollinger"][1] + w["adx"][1]
            + w["volume"][1], w["rsi"][2]>>

\* C24 as stated: for a configuration listing all six indicators the
\* returned weights sum to 1.0, and a table that does not sum to 1.0 is
\* never returned as it is.
C24_SumIsOne ==
    (Returned("load_technical_weights") /\ CompleteConfig) =>
        /\ ReturnedSum[1] = ReturnedSum[2]
        /\ TotalOf(ind_args.config.rows) # 1000 => ind_ret.log # "loaded"

\* C24: the returned weights sum to 1.0 within 0.01.  A complete table whose
\* sum is more than 0.01 away from 1.0 is renormalized to sum to 1.0, with a
\* warning (equal weights if the sum is 0); one whose sum is within 0.01 is
\* returned as it is; a missing, unreadable or incomplete configuration gives
\* equal weights of 1/6.
C24_SumWithinTolerance ==
    Returned("load_technical_weights") =>
        LET total == TotalOf(ind_args.config.rows)
            rows == ind_args.config.rows
        IN  /\ 990 * ReturnedSum[2] <= 1000 * ReturnedSum[1]
            /\ 1000 * ReturnedSum[1] <= 1010 * ReturnedSum[2]
            /\ ~ CompleteConfig => ind_ret.weights = DEFAULT_WEIGHTS
            /\ (CompleteConfig /\ total = 0) => ind_ret.weights = DEFAULT_WEIGHTS
            /\ (CompleteConfig /\ total # 0 /\ (total > 1010 \/ total < 990)) =>
                  /\ ind_ret.log = "normalizing"
                  /\ ind_ret.weights = [k \in Indicators |-> <<rows[k], total>>]
                  /\ ReturnedSum[1] = ReturnedSum[2]
            /\ (CompleteConfig /\ total < 1010 /\ total > 990) =>
                  /\ ind_ret.log = "loaded"
                  /\ ind_ret.weights = [k \in Indicators |-> <<rows[k], 1000>>]

\* Five weights of 0.165 and one of 0.17: the sum 0.995 is returned as read.
C24_Witness ==
    /\ Returned("load_technical_weights")
    /\ CompleteConfig
    /\ TotalOf(ind_args.config.rows) = 995
    /\ ind_ret.log = "loaded"
    /\ ReturnedSum = <<995, 1000>>


\* The file a holding's record belongs in: <symbol>@<broker>.json with a
\* known broker, <symbol_yf>.json without.
OwnFile(holding) == IF KnownBroker(holding.broker) THEN holding.symbol \o <<"@", holding.broker, ".json">> ELSE holding.symbol_yf \o <<".json">>

\* No two holdings of the list share symbol and broker.
DistinctPairs == \A j, k \in 1..Len(holdings_file.holdings) : (holdings_file.holdings[j].symbol = holdings_file.holdings[k].symbol /\ holdings_file.holdings[j].broker = holdings_file.holdings[k].broker) => j = k

\* C25: over holdings with pairwise distinct (symbol, broker), after
\* score_all every scored holding has its own file with its own quantity
\* and average price, and a holding's scorer run writes no file but the
\* holding's own.
C25_OnePerHolding ==
    /\ []((pc = "done" /\ holdings_file.exists /\ DistinctPairs) =>
            \A k \in 1..Len(holdings_file.holdings) :
                returncode[k] = 0 =>
                    \E f \in scores_dir :
                        /\ f.name = OwnFile(holdings_file.holdings[k])
                        /\ f.quantity = holdings_file.holdings[k].quantity
                        /\ f.avg_price = holdings_file.holdings[k].avg_price)
    /\ [][(pc = "score_all_loop" /\ DistinctPairs) =>
            \A f \in scores_dir' \ scores_dir :
                f.name = OwnFile(holdings_file.holdings[loop.i + 1])]_vars


\* The tickers a list of the view names.
TickersOf(list) == {list[k].symbol_yf : k \in 1..Len(list)}

\* The log holds an ADD for the ticker with no REMOVE for it after.
AddedAndKept(t) == \E i \in 1..Len(events_file) : events_file[i].type = "ADD" /\ events_file[i].symbol_yf = t /\ \A j \in (i + 1)..Len(events_file) : ~(events_file[j].type = "REMOVE" /\ events_file[j].symbol_yf = t)

\* The latest ADD or REMOVE for the ticker is a REMOVE.
LastIsRemove(t) == \E i \in 1..Len(events_file) : events_file[i].type = "REMOVE" /\ events_file[i].symbol_yf = t /\ \A j \in (i + 1)..Len(events_file) : ~(events_file[j].type = "ADD" /\ events_file[j].symbol_yf = t)

\* C30: after a rebuild, a ticker is in stocks exactly when the log holds
\* an ADD for it with no later REMOVE, in removed exactly when its latest
\* ADD or REMOVE is a REMOVE, never in both, and events_count is the
\* length of the log.
C30_ViewMatchesLog ==
    pc = "done" =>
        /\ \A k \in 1..Len(TickerOrder) :
              /\ TickerOrder[k] \in TickersOf(view_file.stocks) <=> AddedAndKept(TickerOrder[k])
              /\ TickerOrder[k] \in TickersOf(view_file.removed) <=> LastIsRemove(TickerOrder[k])
        /\ TickersOf(view_file.stocks) \cap TickersOf(view_file.removed) = {}
        /\ view_file.events_count = Len(events_file)

====
